---------------------------- MODULE Spec2Model ----------------------------
(***************************************************************************)
(* A model of the itersynth waveform generators (src/src/lib.rs).          *)
(*                                                                         *)
(* A generator graph is a tree of records, one record per generator, with  *)
(* the fields of the Rust struct it models.  Samples and times are f32 in  *)
(* the source; here they are fixed-point integers with ONE units to 1.0,   *)
(* so 0.125 is ONE \div 8.  WaveNext and WaveReset follow WaveGen::next    *)
(* and WaveGen::reset of each struct, and also return the list of calls    *)
(* they made, parent before children and in call order.                    *)
(***************************************************************************)
EXTENDS Integers, Sequences, FiniteSets, TLC

VARIABLES
  wave,     \* the generator graph being driven
  fresh,    \* the same graph as it was constructed
  twin,     \* a freshly constructed copy, replayed since the last reset()
  out,      \* result of the last next() on wave
  twinOut,  \* result of the last next() on twin
  trace,    \* every generator call made since construction or the last reset()
  n,        \* number of next() calls since construction or the last reset()
  pc,       \* where the program is: "run", "panicked", or a place in main
  spec,     \* playsound's waveform text, one character per element
  period    \* the step a driver passes to every next(): WaveCallback.step

vars == <<wave, fresh, twin, out, twinOut, trace, n, pc, spec, period>>

(***************************************************************************)
(* Bounds of the model.                                                    *)
(***************************************************************************)
MaxCalls == 3
MaxDur == 1
MaxDelay == 2
MaxTestCalls == 12
MaxTokens == 4

(***************************************************************************)
(* Sample arithmetic: f32 as fixed point.                                  *)
(***************************************************************************)
ONE == 1000

None == <<>>
Some(v) == <<v>>
IsSome(o) == o # None
Val(o) == o[1]

Mul(a, b) == (a * b) \div ONE
Div(a, b) == (a * ONE) \div b

\* Rust's % on floats: the remainder has the sign of the dividend.
FMod(a, m) == IF a >= 0 THEN a % m ELSE -((-a) % m)

\* `x as i32`: truncation toward zero.
Trunc(x) == IF x >= 0 THEN x \div ONE ELSE -((-x) \div ONE)

\* sin(2*PI*phase): exact at the eighths of a turn (to 1/ONE), linear between.
SinEighths == <<0, 707, 1000, 707, 0, -707, -1000, -707, 0>>
SinTurn(phase) ==
  LET p == phase % ONE
      e == ONE \div 8
      i == p \div e
      f == p % e
      a == SinEighths[i + 1]
      b == SinEighths[i + 2]
  IN a + ((b - a) * f) \div e

(***************************************************************************)
(* u64 arithmetic for the noise seed: eight bytes, least significant       *)
(* first, with the wrap-around of overflowing_mul and overflowing_add.     *)
(***************************************************************************)
NOISE_INIT_SEED == <<21, 95, 208, 172, 75, 155, 182, 1>>
LcgMultiplier == <<253, 176, 176, 135, 230, 46, 187, 39>>
LcgIncrement == <<45, 243, 4, 181, 0, 0, 0, 0>>

RECURSIVE ColSum(_, _, _, _)
ColSum(a, b, k, i) ==
  IF i > k THEN 0 ELSE a[i] * b[k + 1 - i] + ColSum(a, b, k, i + 1)

RECURSIVE MulBytes(_, _, _, _)
MulBytes(a, b, k, carry) ==
  IF k > 8 THEN <<>>
  ELSE LET s == carry + ColSum(a, b, k, 1)
       IN <<s % 256>> \o MulBytes(a, b, k + 1, s \div 256)

RECURSIVE AddBytes(_, _, _, _)
AddBytes(a, b, k, carry) ==
  IF k > 8 THEN <<>>
  ELSE LET s == carry + a[k] + b[k]
       IN <<s % 256>> \o AddBytes(a, b, k + 1, s \div 256)

OverflowingMul(a, b) == MulBytes(a, b, 1, 0)
OverflowingAdd(a, b) == AddBytes(a, b, 1, 0)

LcgStep(seed) == OverflowingAdd(OverflowingMul(seed, LcgMultiplier), LcgIncrement)

\* (seed >> k) & 1, the shift amount taken modulo 64.
SeedBit(seed, k) ==
  LET j == k % 64
  IN (seed[(j \div 8) + 1] \div (2 ^ (j % 8))) % 2

(***************************************************************************)
(* Constructors.                                                           *)
(***************************************************************************)
Const(v) == [kind |-> "Const", value |-> v]

Adshr(a, d, s, h, r) ==
  [kind |-> "Adshr", attack_time |-> a, decay_time |-> d, sustain_level |-> s,
   hold_time |-> h, release_time |-> r, time |-> 0]

Delayed(w, seconds) == [kind |-> "Delayed", wave |-> w, delay |-> seconds, time |-> 0]

Looped(w) == [kind |-> "Looped", wave |-> w]

NoiseWave(f) == [kind |-> "Noise", freq |-> f, seed |-> NOISE_INIT_SEED, phase |-> 0]

Product(w1, w2) == [kind |-> "Product", wave1 |-> w1, wave2 |-> w2]

PulseWave(f, d) == [kind |-> "Pulse", freq |-> f, duty |-> d, phase |-> 0]

SineWave(f) == [kind |-> "Sine", freq |-> f, phase |-> 0]

SlideWave(pos, vel, acc) ==
  [kind |-> "Slide", pos |-> pos, vel |-> vel, half_acc |-> Mul(ONE \div 2, acc),
   time |-> 0]

Sum(w1, w2) == [kind |-> "Sum", wave1 |-> w1, wave2 |-> w2]

TriangleWave(f, d) == [kind |-> "Triangle", freq |-> f, duty |-> d, phase |-> 0]

\* Mutant: the attack and decay times change places in the envelope.
WaveAdshrDecayFirst(w, a, d, s, h, r) == Product(Adshr(d, a, s, h, r), w)

\* Wave::adshr: the envelope times the wave, the envelope first.
WaveAdshr(w, a, d, s, h, r) == Product(Adshr(a, d, s, h, r), w)

(***************************************************************************)
(* The record of one call.  calls lists the calls made directly on the     *)
(* children, in order.                                                     *)
(***************************************************************************)
Call(slot, op, step, o) == [slot |-> slot, op |-> op, step |-> step, out |-> o]

Entry(path, op, pre, step, post, o, calls) ==
  [path |-> path, op |-> op, kind |-> pre.kind, step |-> step, pre |-> pre,
   post |-> post, out |-> o, calls |-> calls]

Result(w, o, es) == [wave |-> w, out |-> o, es |-> es]

RECURSIVE WaveNext(_, _, _)
RECURSIVE WaveReset(_, _)

\* F applied to the value of x, with x evaluated once.
With(x, F(_)) == CHOOSE y \in {F(v) : v \in {x}} : TRUE

(***************************************************************************)
(* WaveGen::reset                                                          *)
(***************************************************************************)
ResetEntry(path, pre, post, slots) ==
  Entry(path, "reset", pre, 0, post, None,
        [k \in 1..Len(slots) |-> Call(slots[k], "reset", 0, None)])

LeafReset(w, path) == Result(w, None, <<ResetEntry(path, w, w, <<>>)>>)

\* Mutant: reset() leaves the time where it was.
TimeResetNoRewind(w, path) == Result(w, None, <<ResetEntry(path, w, w, <<>>)>>)

\* Adshr::reset and SlideWave::reset
TimeReset(w, path) ==
  Result([w EXCEPT !.time = 0], None,
         <<ResetEntry(path, w, [w EXCEPT !.time = 0], <<>>)>>)

\* Mutant: reset() rewinds the child but forgets Delayed's own time.
DelayedResetKeepsTime(w, path) ==
  With(WaveReset(w.wave, path \o <<"wave">>), LAMBDA r :
    Result([w EXCEPT !.wave = r.wave], None,
           <<ResetEntry(path, w, [w EXCEPT !.wave = r.wave], <<"wave">>)>> \o r.es))

DelayedReset(w, path) ==
  With(WaveReset(w.wave, path \o <<"wave">>), LAMBDA r :
    Result([w EXCEPT !.wave = r.wave, !.time = 0], None,
           <<ResetEntry(path, w, [w EXCEPT !.wave = r.wave, !.time = 0], <<"wave">>)>>
           \o r.es))

LoopedReset(w, path) ==
  With(WaveReset(w.wave, path \o <<"wave">>), LAMBDA r :
    Result([w EXCEPT !.wave = r.wave], None,
           <<ResetEntry(path, w, [w EXCEPT !.wave = r.wave], <<"wave">>)>> \o r.es))

NoiseResetTo(w, r) == [w EXCEPT !.freq = r.wave, !.seed = NOISE_INIT_SEED, !.phase = 0]

NoiseReset(w, path) ==
  With(WaveReset(w.freq, path \o <<"freq">>), LAMBDA r :
    Result(NoiseResetTo(w, r), None,
           <<ResetEntry(path, w, NoiseResetTo(w, r), <<"freq">>)>> \o r.es))

SineReset(w, path) ==
  With(WaveReset(w.freq, path \o <<"freq">>), LAMBDA r :
    Result([w EXCEPT !.freq = r.wave, !.phase = 0], None,
           <<ResetEntry(path, w, [w EXCEPT !.freq = r.wave, !.phase = 0], <<"freq">>)>>
           \o r.es))

\* PulseWave::reset and TriangleWave::reset
FreqDutyResetTo(w, r1, r2) == [w EXCEPT !.freq = r1.wave, !.duty = r2.wave, !.phase = 0]

FreqDutyReset(w, path) ==
  With(WaveReset(w.freq, path \o <<"freq">>), LAMBDA r1 :
    With(WaveReset(w.duty, path \o <<"duty">>), LAMBDA r2 :
      Result(FreqDutyResetTo(w, r1, r2), None,
             <<ResetEntry(path, w, FreqDutyResetTo(w, r1, r2), <<"freq", "duty">>)>>
             \o r1.es \o r2.es)))

\* Product::reset and Sum::reset
PairResetTo(w, r1, r2) == [w EXCEPT !.wave1 = r1.wave, !.wave2 = r2.wave]

\* Mutant: reset() reaches the first wave only.
PairResetFirstOnly(w, path) ==
  With(WaveReset(w.wave1, path \o <<"wave1">>), LAMBDA r1 :
    Result([w EXCEPT !.wave1 = r1.wave], None,
           <<ResetEntry(path, w, [w EXCEPT !.wave1 = r1.wave], <<"wave1">>)>>
           \o r1.es))

PairReset(w, path) ==
  With(WaveReset(w.wave1, path \o <<"wave1">>), LAMBDA r1 :
    With(WaveReset(w.wave2, path \o <<"wave2">>), LAMBDA r2 :
      Result(PairResetTo(w, r1, r2), None,
             <<ResetEntry(path, w, PairResetTo(w, r1, r2), <<"wave1", "wave2">>)>>
             \o r1.es \o r2.es)))

WaveReset(w, path) ==
  CASE w.kind = "Const" -> LeafReset(w, path)
    [] w.kind \in {"Adshr", "Slide"} -> TimeReset(w, path)
    [] w.kind = "Delayed" -> DelayedReset(w, path)
    [] w.kind = "Looped" -> LoopedReset(w, path)
    [] w.kind = "Noise" -> NoiseReset(w, path)
    [] w.kind = "Sine" -> SineReset(w, path)
    [] w.kind \in {"Pulse", "Triangle"} -> FreqDutyReset(w, path)
    [] w.kind \in {"Product", "Sum"} -> PairReset(w, path)

(***************************************************************************)
(* WaveGen::next                                                           *)
(***************************************************************************)
\* A call of next: the record of the call, then those of the children's calls.
NextResult(path, pre, step, post, o, calls, es) ==
  Result(post, o, <<Entry(path, "next", pre, step, post, o, calls)>> \o es)

ConstNext(w, step, path) ==
  NextResult(path, w, step, w, Some(w.value), <<>>, <<>>)

\* Mutant: the hold phase is left out of the walk through the phases.
AdshrValueNoHold(w) ==
  LET t0 == w.time
      t1 == t0 - w.attack_time
      t2 == t1 - w.decay_time
  IN IF t0 < w.attack_time THEN Some(Div(t0, w.attack_time))
     ELSE IF t1 < w.decay_time
       THEN Some(ONE - Mul(Div(t1, w.decay_time), ONE - w.sustain_level))
     ELSE IF t2 < w.release_time
       THEN Some(Mul(ONE - Div(t2, w.release_time), w.sustain_level))
     ELSE None

\* Mutant: the decay is measured from the start of the envelope, not from
\* the end of the attack.
AdshrValueDecayFromStart(w) ==
  LET t0 == w.time
      t1 == t0 - w.attack_time
      t2 == t1 - w.decay_time
      t3 == t2 - w.hold_time
  IN IF t0 < w.attack_time THEN Some(Div(t0, w.attack_time))
     ELSE IF t1 < w.decay_time
       THEN Some(ONE - Mul(Div(t0, w.decay_time), ONE - w.sustain_level))
     ELSE IF t2 < w.hold_time THEN Some(w.sustain_level)
     ELSE IF t3 < w.release_time
       THEN Some(Mul(ONE - Div(t3, w.release_time), w.sustain_level))
     ELSE None

\* The envelope's value at the time held before the call; None past the release.
AdshrValue(w) ==
  LET t0 == w.time
      t1 == t0 - w.attack_time
      t2 == t1 - w.decay_time
      t3 == t2 - w.hold_time
  IN IF t0 < w.attack_time THEN Some(Div(t0, w.attack_time))
     ELSE IF t1 < w.decay_time
       THEN Some(ONE - Mul(Div(t1, w.decay_time), ONE - w.sustain_level))
     ELSE IF t2 < w.hold_time THEN Some(w.sustain_level)
     ELSE IF t3 < w.release_time
       THEN Some(Mul(ONE - Div(t3, w.release_time), w.sustain_level))
     ELSE None

\* Mutant: the time advances on an ended call too.
AdshrNextAlwaysAdvances(w, step, path) ==
  With(AdshrValue(w), LAMBDA v :
    NextResult(path, w, step, [w EXCEPT !.time = w.time + step], v, <<>>, <<>>))

AdshrNext(w, step, path) ==
  With(AdshrValue(w), LAMBDA v :
    NextResult(path, w, step,
               IF IsSome(v) THEN [w EXCEPT !.time = w.time + step] ELSE w,
               v, <<>>, <<>>))

\* Delayed::next once the delay has passed.
DelayedPass(w, step, path) ==
  With(WaveNext(w.wave, step, path \o <<"wave">>), LAMBDA r :
    NextResult(path, w, step, [w EXCEPT !.wave = r.wave], r.out,
               <<Call("wave", "next", step, r.out)>>, r.es))

\* Delayed::next during the delay; t is the time after this call, and the
\* child is advanced by over when t is past the delay.
DelayedWait(w, step, path, t, over) ==
  IF t > w.delay
  THEN With(WaveNext(w.wave, over, path \o <<"wave">>), LAMBDA r :
         NextResult(path, w, step, [w EXCEPT !.time = t, !.wave = r.wave], None,
                    <<Call("wave", "next", over, r.out)>>, r.es))
  ELSE NextResult(path, w, step, [w EXCEPT !.time = t], None, <<>>, <<>>)

\* Mutant: the call that crosses the delay advances the child by the whole step.
DelayedNextFullStep(w, step, path) ==
  IF w.time >= w.delay
  THEN DelayedPass(w, step, path)
  ELSE DelayedWait(w, step, path, w.time + step, step)

\* Mutant: the time keeps accumulating after the delay has passed.
DelayedNextKeepsCounting(w, step, path) ==
  IF w.time >= w.delay
  THEN With(WaveNext(w.wave, step, path \o <<"wave">>), LAMBDA r :
         NextResult(path, w, step,
                    [w EXCEPT !.wave = r.wave, !.time = w.time + step], r.out,
                    <<Call("wave", "next", step, r.out)>>, r.es))
  ELSE DelayedWait(w, step, path, w.time + step, w.time + step - w.delay)

\* Mutant: the call that crosses the delay does not advance the child.
DelayedNextNoCorrection(w, step, path) ==
  IF w.time >= w.delay
  THEN DelayedPass(w, step, path)
  ELSE NextResult(path, w, step, [w EXCEPT !.time = w.time + step], None, <<>>, <<>>)

DelayedNext(w, step, path) ==
  IF w.time >= w.delay
  THEN DelayedPass(w, step, path)
  ELSE DelayedWait(w, step, path, w.time + step, w.time + step - w.delay)

\* Looped::next when the child's first result r1 is a sample.
LoopedYield(w, step, path, r1) ==
  NextResult(path, w, step, [w EXCEPT !.wave = r1.wave], r1.out,
             <<Call("wave", "next", step, r1.out)>>, r1.es)

\* Mutant: the child is retried without being reset.
LoopedNextNoReset(w, step, path) ==
  With(WaveNext(w.wave, step, path \o <<"wave">>), LAMBDA r1 :
    IF IsSome(r1.out)
    THEN LoopedYield(w, step, path, r1)
    ELSE With(WaveNext(r1.wave, step, path \o <<"wave">>), LAMBDA r2 :
           NextResult(path, w, step, [w EXCEPT !.wave = r2.wave], r2.out,
                      <<Call("wave", "next", step, r1.out),
                        Call("wave", "next", step, r2.out)>>,
                      r1.es \o r2.es)))

LoopedNext(w, step, path) ==
  With(WaveNext(w.wave, step, path \o <<"wave">>), LAMBDA r1 :
    IF IsSome(r1.out)
    THEN LoopedYield(w, step, path, r1)
    ELSE With(WaveReset(r1.wave, path \o <<"wave">>), LAMBDA rr :
           With(WaveNext(rr.wave, step, path \o <<"wave">>), LAMBDA r2 :
             NextResult(path, w, step, [w EXCEPT !.wave = r2.wave], r2.out,
                        <<Call("wave", "next", step, r1.out),
                          Call("wave", "reset", 0, None),
                          Call("wave", "next", step, r2.out)>>,
                        r1.es \o rr.es \o r2.es))))

\* The noise generator after a call with frequency freq; p is the advanced phase.
NoiseAdvance(w, p) ==
  IF p >= 64 * ONE
  THEN [w EXCEPT !.phase = FMod(p, 64 * ONE), !.seed = LcgStep(w.seed)]
  ELSE [w EXCEPT !.phase = p]

NoiseValue(seed, phase) == IF SeedBit(seed, Trunc(phase)) # 0 THEN ONE ELSE -ONE

\* Mutant: the output bit is read with the seed and phase after the advance.
NoiseNextReadsAfter(w, step, path) ==
  With(WaveNext(w.freq, step, path \o <<"freq">>), LAMBDA rf :
    IF rf.out = None
    THEN NextResult(path, w, step, [w EXCEPT !.freq = rf.wave], None,
                    <<Call("freq", "next", step, None)>>, rf.es)
    ELSE With(NoiseAdvance([w EXCEPT !.freq = rf.wave],
                           w.phase + Mul(Mul(2 * ONE, Val(rf.out)), step)),
              LAMBDA w2 :
                NextResult(path, w, step, w2, Some(NoiseValue(w2.seed, w2.phase)),
                           <<Call("freq", "next", step, rf.out)>>, rf.es)))

NoiseNext(w, step, path) ==
  With(WaveNext(w.freq, step, path \o <<"freq">>), LAMBDA rf :
    IF rf.out = None
    THEN NextResult(path, w, step, [w EXCEPT !.freq = rf.wave], None,
                    <<Call("freq", "next", step, None)>>, rf.es)
    ELSE With(NoiseAdvance([w EXCEPT !.freq = rf.wave],
                           w.phase + Mul(Mul(2 * ONE, Val(rf.out)), step)),
              LAMBDA w2 :
                NextResult(path, w, step, w2, Some(NoiseValue(w.seed, w.phase)),
                           <<Call("freq", "next", step, rf.out)>>, rf.es)))

\* Product::next when the first wave's result r1 has ended: the second wave is
\* not called.
ProductEnd(w, step, path, r1) ==
  NextResult(path, w, step, [w EXCEPT !.wave1 = r1.wave], None,
             <<Call("wave1", "next", step, r1.out)>>, r1.es)

\* Product::next after both waves were called; v is the value returned.
ProductBoth(w, step, path, r1, r2, v) ==
  NextResult(path, w, step, [w EXCEPT !.wave1 = r1.wave, !.wave2 = r2.wave], v,
             <<Call("wave1", "next", step, r1.out), Call("wave2", "next", step, r2.out)>>,
             r1.es \o r2.es)

\* Mutant: when the second wave ends, the first wave's value is returned.
ProductNextKeepsFirst(w, step, path) ==
  With(WaveNext(w.wave1, step, path \o <<"wave1">>), LAMBDA r1 :
    IF r1.out = None
    THEN ProductEnd(w, step, path, r1)
    ELSE With(WaveNext(w.wave2, step, path \o <<"wave2">>), LAMBDA r2 :
           ProductBoth(w, step, path, r1, r2,
                       IF r2.out = None THEN r1.out
                       ELSE Some(Mul(Val(r1.out), Val(r2.out))))))

ProductNext(w, step, path) ==
  With(WaveNext(w.wave1, step, path \o <<"wave1">>), LAMBDA r1 :
    IF r1.out = None
    THEN ProductEnd(w, step, path, r1)
    ELSE With(WaveNext(w.wave2, step, path \o <<"wave2">>), LAMBDA r2 :
           ProductBoth(w, step, path, r1, r2,
                       IF r2.out = None THEN None
                       ELSE Some(Mul(Val(r1.out), Val(r2.out))))))

\* PulseWave::next and TriangleWave::next differ only in the value they return.
PulseValue(phase, duty) == IF phase < duty THEN ONE ELSE -ONE

\* Mutant: the falling ramp is divided by the duty, as the rising one is.
TriangleValueFallsByDuty(phase, duty) ==
  IF phase < duty
  THEN Div(2 * phase, duty) - ONE
  ELSE ONE - Div(2 * (phase - duty), duty)

TriangleValue(phase, duty) ==
  IF phase < duty
  THEN Div(2 * phase, duty) - ONE
  ELSE ONE - Div(2 * (phase - duty), ONE - duty)

FreqDutyValue(w, duty) ==
  IF w.kind = "Pulse" THEN PulseValue(w.phase, duty) ELSE TriangleValue(w.phase, duty)

\* Mutant: the phase advances although the duty wave has ended.
FreqDutyNextAdvancesAnyway(w, step, path) ==
  With(WaveNext(w.freq, step, path \o <<"freq">>), LAMBDA rf :
    IF rf.out = None
    THEN NextResult(path, w, step, [w EXCEPT !.freq = rf.wave], None,
                    <<Call("freq", "next", step, None)>>, rf.es)
    ELSE With(WaveNext(w.duty, step, path \o <<"duty">>), LAMBDA rd :
           NextResult(path, w, step,
                      [w EXCEPT !.freq = rf.wave, !.duty = rd.wave,
                                !.phase = FMod(w.phase + Mul(Val(rf.out), step), ONE)],
                      IF rd.out = None THEN None
                      ELSE Some(FreqDutyValue(w, Val(rd.out))),
                      <<Call("freq", "next", step, rf.out),
                        Call("duty", "next", step, rd.out)>>,
                      rf.es \o rd.es)))

FreqDutyNext(w, step, path) ==
  With(WaveNext(w.freq, step, path \o <<"freq">>), LAMBDA rf :
    IF rf.out = None
    THEN NextResult(path, w, step, [w EXCEPT !.freq = rf.wave], None,
                    <<Call("freq", "next", step, None)>>, rf.es)
    ELSE With(WaveNext(w.duty, step, path \o <<"duty">>), LAMBDA rd :
           IF rd.out = None
           THEN NextResult(path, w, step,
                           [w EXCEPT !.freq = rf.wave, !.duty = rd.wave], None,
                           <<Call("freq", "next", step, rf.out),
                             Call("duty", "next", step, None)>>,
                           rf.es \o rd.es)
           ELSE NextResult(path, w, step,
                           [w EXCEPT !.freq = rf.wave, !.duty = rd.wave,
                                     !.phase = FMod(w.phase + Mul(Val(rf.out), step), ONE)],
                           Some(FreqDutyValue(w, Val(rd.out))),
                           <<Call("freq", "next", step, rf.out),
                             Call("duty", "next", step, rd.out)>>,
                           rf.es \o rd.es)))

\* Mutant: the sample is the sine of the phase after the advance.
SineNextEmitsAdvanced(w, step, path) ==
  With(WaveNext(w.freq, step, path \o <<"freq">>), LAMBDA rf :
    IF rf.out = None
    THEN NextResult(path, w, step, [w EXCEPT !.freq = rf.wave], None,
                    <<Call("freq", "next", step, None)>>, rf.es)
    ELSE NextResult(path, w, step,
                    [w EXCEPT !.freq = rf.wave,
                              !.phase = FMod(w.phase + Mul(Val(rf.out), step), ONE)],
                    Some(SinTurn(FMod(w.phase + Mul(Val(rf.out), step), ONE))),
                    <<Call("freq", "next", step, rf.out)>>, rf.es))

SineNext(w, step, path) ==
  With(WaveNext(w.freq, step, path \o <<"freq">>), LAMBDA rf :
    IF rf.out = None
    THEN NextResult(path, w, step, [w EXCEPT !.freq = rf.wave], None,
                    <<Call("freq", "next", step, None)>>, rf.es)
    ELSE NextResult(path, w, step,
                    [w EXCEPT !.freq = rf.wave,
                              !.phase = FMod(w.phase + Mul(Val(rf.out), step), ONE)],
                    Some(SinTurn(w.phase)),
                    <<Call("freq", "next", step, rf.out)>>, rf.es))

SlideNext(w, step, path) ==
  NextResult(path, w, step, [w EXCEPT !.time = w.time + step],
             Some(w.pos + Mul(w.vel + Mul(w.half_acc, w.time), w.time)), <<>>, <<>>)

\* Sum::next after both waves were called; v is the value returned.
SumBoth(w, step, path, r1, r2, v) ==
  NextResult(path, w, step, [w EXCEPT !.wave1 = r1.wave, !.wave2 = r2.wave], v,
             <<Call("wave1", "next", step, r1.out), Call("wave2", "next", step, r2.out)>>,
             r1.es \o r2.es)

\* Mutant: the sum ends as soon as the first wave ends.
SumNextEndsWithFirst(w, step, path) ==
  With(WaveNext(w.wave1, step, path \o <<"wave1">>), LAMBDA r1 :
    With(WaveNext(w.wave2, step, path \o <<"wave2">>), LAMBDA r2 :
      SumBoth(w, step, path, r1, r2,
              IF r1.out = None THEN None
              ELSE IF r2.out = None THEN r1.out
              ELSE Some(Val(r1.out) + Val(r2.out)))))

\* Mutant: when the first wave ends the second is not called, as in Product.
SumNextShortCircuits(w, step, path) ==
  With(WaveNext(w.wave1, step, path \o <<"wave1">>), LAMBDA r1 :
    IF r1.out = None
    THEN NextResult(path, w, step, [w EXCEPT !.wave1 = r1.wave], None,
                    <<Call("wave1", "next", step, r1.out)>>, r1.es)
    ELSE With(WaveNext(w.wave2, step, path \o <<"wave2">>), LAMBDA r2 :
           SumBoth(w, step, path, r1, r2,
                   IF r2.out = None THEN r1.out
                   ELSE Some(Val(r1.out) + Val(r2.out)))))

\* Mutant: when the first wave has ended the second is polled and then called
\* again, so it is advanced twice in one call.
SumNextAdvancesSecondTwice(w, step, path) ==
  With(WaveNext(w.wave1, step, path \o <<"wave1">>), LAMBDA r1 :
    With(WaveNext(w.wave2, step, path \o <<"wave2">>), LAMBDA r2 :
      IF r1.out = None
      THEN With(WaveNext(r2.wave, step, path \o <<"wave2">>), LAMBDA r3 :
             NextResult(path, w, step,
                        [w EXCEPT !.wave1 = r1.wave, !.wave2 = r3.wave], r3.out,
                        <<Call("wave1", "next", step, r1.out),
                          Call("wave2", "next", step, r2.out),
                          Call("wave2", "next", step, r3.out)>>,
                        r1.es \o r2.es \o r3.es))
      ELSE SumBoth(w, step, path, r1, r2,
                   IF r2.out = None THEN r1.out
                   ELSE Some(Val(r1.out) + Val(r2.out)))))

SumNext(w, step, path) ==
  With(WaveNext(w.wave1, step, path \o <<"wave1">>), LAMBDA r1 :
    With(WaveNext(w.wave2, step, path \o <<"wave2">>), LAMBDA r2 :
      SumBoth(w, step, path, r1, r2,
              IF r1.out = None THEN r2.out
              ELSE IF r2.out = None THEN r1.out
              ELSE Some(Val(r1.out) + Val(r2.out)))))

WaveNext(w, step, path) ==
  CASE w.kind = "Const" -> ConstNext(w, step, path)
    [] w.kind = "Adshr" -> AdshrNext(w, step, path)
    [] w.kind = "Delayed" -> DelayedNext(w, step, path)
    [] w.kind = "Looped" -> LoopedNext(w, step, path)
    [] w.kind = "Noise" -> NoiseNext(w, step, path)
    [] w.kind = "Product" -> ProductNext(w, step, path)
    [] w.kind \in {"Pulse", "Triangle"} -> FreqDutyNext(w, step, path)
    [] w.kind = "Sine" -> SineNext(w, step, path)
    [] w.kind = "Slide" -> SlideNext(w, step, path)
    [] w.kind = "Sum" -> SumNext(w, step, path)

(***************************************************************************)
(* The graphs the model is started with, built as a caller of the library  *)
(* builds them.  Envelopes also stand alone, to observe Adshr by itself.   *)
(***************************************************************************)
Eighth == ONE \div 8
Steps == {0, Eighth, 2 * Eighth}

Durs == {k * Eighth : k \in 0..MaxDur}
Delays == {k * Eighth : k \in 0..MaxDelay}

Envelopes == {Adshr(a, d, ONE \div 2, h, r) : a \in Durs, d \in Durs, h \in Durs, r \in Durs}
ShortEnvelopes == {Adshr(a, 0, ONE, 0, r) : a \in Durs, r \in Durs}

Slide1 == SlideWave(0, ONE, 2 * ONE)

Oscillators ==
  {SineWave(Const(ONE)), NoiseWave(Const(128 * ONE)),
   PulseWave(Const(ONE), Const(ONE \div 2)),
   TriangleWave(Const(ONE), Const((4 * ONE) \div 5)),
   SineWave(Slide1), NoiseWave(Delayed(Const(128 * ONE), Eighth)),
   PulseWave(Delayed(Const(ONE), Eighth), Slide1),
   TriangleWave(Slide1, Delayed(Const(ONE \div 2), Eighth)),
   PulseWave(Const(ONE), Delayed(Const(ONE \div 2), Eighth)),
   SineWave(Const(-ONE)), NoiseWave(Const(-128 * ONE)),
   PulseWave(Const(-ONE), Const(ONE \div 2))}

Enveloped ==
  {WaveAdshr(w, a, 0, ONE, 0, r) : w \in {Const(ONE), Slide1}, a \in Durs, r \in Durs}

\* Envelopes around waves that end by themselves.
FiniteWaves == {Delayed(Const(2 * ONE), Eighth), WaveAdshr(Const(2 * ONE), Eighth, 0, ONE, 0, 0)}

FiniteEnveloped ==
  {WaveAdshr(w, a, 0, ONE, 0, r) : w \in FiniteWaves, a \in Durs, r \in Durs}

DelayedWaves ==
  {Delayed(w, d) : w \in {Const(ONE), Slide1, Adshr(Eighth, 0, ONE, 0, Eighth)},
                   d \in Delays}

Operands ==
  {Const(2 * ONE), Slide1, Adshr(Eighth, 0, ONE, 0, Eighth),
   Delayed(Slide1, Eighth), Delayed(Const(ONE), 2 * Eighth)}

Pairs ==
  {Sum(a, b) : a \in Operands, b \in Operands}
  \cup {Product(a, b) : a \in Operands, b \in Operands}

Loopable ==
  Enveloped \cup DelayedWaves \cup ShortEnvelopes
  \cup {Sum(Adshr(Eighth, 0, ONE, 0, 0), Delayed(Slide1, 2 * Eighth)),
        SineWave(Delayed(Const(ONE), Eighth)),
        Looped(Product(Adshr(Eighth, 0, ONE, 0, 0), Slide1))}

Graphs ==
  {Const(ONE), Slide1} \cup Oscillators \cup Envelopes \cup Enveloped
  \cup FiniteEnveloped
  \cup DelayedWaves \cup Pairs \cup {Looped(w) : w \in Loopable}
  \cup {Delayed(Looped(Product(Adshr(Eighth, 0, ONE, 0, 0), Slide1)), Eighth)}

(***************************************************************************)
(* The driver: construction, next(step) and reset() on the root.           *)
(***************************************************************************)
Init ==
  /\ wave \in Graphs
  /\ fresh = wave
  /\ twin = wave
  /\ out = None
  /\ twinOut = None
  /\ trace = <<>>
  /\ n = 0
  /\ pc = "run"
  /\ spec = <<>>
  /\ period = 0

\* A noise generator is about to shift its seed by a negative amount:
\* `seed >> (phase as i32)` with phase <= -1.0.
ShiftOverflows(es) ==
  \E k \in 1..Len(es) :
    /\ es[k].op = "next"
    /\ es[k].kind = "Noise"
    /\ IsSome(es[k].out)
    /\ Trunc(es[k].pre.phase) < 0

NextCall(step) ==
  /\ pc = "run"
  /\ n < MaxCalls
  /\ \E r \in {WaveNext(wave, step, <<>>)} :
       /\ wave' = r.wave
       /\ out' = r.out
       /\ trace' = trace \o r.es
  /\ \E t \in {WaveNext(twin, step, <<>>)} :
       /\ twin' = t.wave
       /\ twinOut' = t.out
  /\ n' = n + 1
  /\ UNCHANGED <<fresh, pc, spec, period>>

\* next(step) in a build that checks arithmetic overflow: a shift by a
\* negative amount panics, and the program is over.  A build without the
\* checks masks the amount to its low six bits, which is NextCall.
Panic(step) ==
  /\ pc = "run"
  /\ n < MaxCalls
  /\ ShiftOverflows(WaveNext(wave, step, <<>>).es)
  /\ pc' = "panicked"
  /\ UNCHANGED <<wave, fresh, twin, out, twinOut, trace, n, spec, period>>

Reset ==
  /\ pc = "run"
  /\ \E r \in {WaveReset(wave, <<>>)} :
       /\ wave' = r.wave
       /\ trace' = r.es
  /\ out' = None
  /\ twin' = fresh
  /\ twinOut' = None
  /\ n' = 0
  /\ UNCHANGED <<fresh, pc, spec, period>>

Next ==
  \/ \E step \in Steps : NextCall(step)
  \/ \E step \in Steps : Panic(step)
  \/ Reset

Spec == Init /\ [][Next]_vars

(***************************************************************************)
(* A driver that never stops: a Looped graph called with positive steps    *)
(* for ever, as the playback callback does.  Only the calls of the last    *)
(* next are kept.  The wrapped graphs are ones whose state stays bounded   *)
(* under endless calls.                                                    *)
(***************************************************************************)
LoopChildren ==
  Enveloped \cup ShortEnvelopes
  \cup {Delayed(w, d) : w \in {Const(ONE), Adshr(Eighth, 0, ONE, 0, Eighth)},
                         d \in Delays}
  \cup {Sum(Adshr(Eighth, 0, ONE, 0, 0), Delayed(Const(ONE), 2 * Eighth)),
        Sum(Adshr(Eighth, 0, ONE, 0, Eighth), Delayed(Adshr(0, 0, ONE, Eighth, 0), Eighth)),
        Product(SineWave(Const(ONE)), Adshr(0, Eighth, ONE \div 2, Eighth, 0)),
        Product(Adshr(Eighth, 0, ONE, 0, Eighth), Delayed(Const(ONE), Eighth)),
        Looped(Product(Adshr(Eighth, 0, ONE, 0, 0), Slide1))}

LoopInit ==
  /\ wave \in {Looped(w) : w \in LoopChildren}
  /\ fresh = wave
  /\ twin = wave
  /\ out = None
  /\ twinOut = None
  /\ trace = <<>>
  /\ n = 0
  /\ pc = "run"
  /\ spec = <<>>
  /\ period = 0

LoopCall(step) ==
  /\ \E r \in {WaveNext(wave, step, <<>>)} :
       /\ wave' = r.wave
       /\ out' = r.out
       /\ trace' = r.es
  /\ UNCHANGED <<fresh, twin, twinOut, n, pc, spec, period>>

LoopNext == \E step \in Steps \ {0} : LoopCall(step)

LoopSpec == LoopInit /\ [][LoopNext]_vars /\ WF_vars(LoopNext)

(***************************************************************************)
(* The constant-step driver, as in the unit tests and in playsound's audio  *)
(* callback: a wave called with one step throughout, and reset.  The waves *)
(* are the unit tests' oscillators over constants, envelopes long enough   *)
(* to be sampled inside each phase, and delayed slides.                    *)
(***************************************************************************)
Tenth == ONE \div 10

TestWaves ==
  {SineWave(Const(ONE)), SineWave(Const(ONE \div 2)),
   TriangleWave(Const(ONE), Const((4 * ONE) \div 5)),
   TriangleWave(Const(ONE), Const(ONE \div 2)),
   TriangleWave(Const(2 * ONE), Const(ONE \div 5)),
   Sum(SineWave(Const(2 * ONE)), Const((3 * ONE) \div 2))}

TestSteps == {Eighth, 2 * Eighth, Tenth}

\* wave.adshr(a, d, s, h, r) of the constant 1, with each duration 0 or 1/4.
TestEnvelopes ==
  {WaveAdshr(Const(ONE), a, d, ONE \div 2, h, r) :
     a \in {0, 2 * Eighth}, d \in {0, 2 * Eighth},
     h \in {0, 2 * Eighth}, r \in {0, 2 * Eighth}}

\* Wave::slide(p, v, a).delayed(d)
TestSlides == {Slide1, SlideWave(ONE \div 2, -ONE, ONE)}
TestDelays == {0, Eighth, 3 * Eighth, 3 * Tenth}
TestDelayed == {Delayed(w, d) : w \in TestSlides, d \in TestDelays}

TestInit ==
  /\ wave \in TestWaves \cup TestEnvelopes \cup TestDelayed
  /\ period \in TestSteps
  /\ fresh = wave
  /\ twin = wave
  /\ out = None
  /\ twinOut = None
  /\ trace = <<>>
  /\ n = 0
  /\ pc = "run"
  /\ spec = <<>>

TestCall ==
  /\ pc = "run"
  /\ n < MaxTestCalls
  /\ \E r \in {WaveNext(wave, period, <<>>)} :
       /\ wave' = r.wave
       /\ out' = r.out
       /\ trace' = trace \o r.es
  /\ \E t \in {WaveNext(twin, period, <<>>)} :
       /\ twin' = t.wave
       /\ twinOut' = t.out
  /\ n' = n + 1
  /\ UNCHANGED <<fresh, pc, spec, period>>

TestNext == TestCall \/ Reset

TestSpec == TestInit /\ [][TestNext]_vars

(***************************************************************************)
(* playsound: the waveform text and its parser (src/examples/playsound.rs). *)
(* A text is a sequence of characters.  The parsers are nom's: a parser    *)
(* returns Done with the rest of the input and its output, Error on a      *)
(* mismatch, or Incomplete when the input ends before it could decide.     *)
(***************************************************************************)
Done(rest, o) == [res |-> "Done", rest |-> rest, o |-> o]
Error == [res |-> "Error"]
Incomplete == [res |-> "Incomplete"]

IsDone(r) == r.res = "Done"

Drop(i, k) == SubSeq(i, k + 1, Len(i))
Take(i, k) == SubSeq(i, 1, k)

\* tag!(t): a mismatch is an Error; an input that ends inside t is Incomplete.
Tag(i, t) ==
  LET m == IF Len(i) < Len(t) THEN Len(i) ELSE Len(t)
  IN IF Take(i, m) # Take(t, m) THEN Error
     ELSE IF m < Len(t) THEN Incomplete
     ELSE Done(Drop(i, m), t)

\* char!(c)
Char(i, c) == Tag(i, <<c>>)

\* opt!(p), given p's result r on the input i.
Opt(r, i) ==
  IF r.res = "Error" THEN Done(i, None)
  ELSE IF r.res = "Done" THEN Done(r.rest, Some(r.o))
  ELSE r

DigitChars == <<"0", "1", "2", "3", "4", "5", "6", "7", "8", "9">>

IsDigit(c) == \E d \in 1..10 : DigitChars[d] = c

DigitValue(c) == (CHOOSE d \in 1..10 : DigitChars[d] = c) - 1

\* nom::digit: one or more digits.  On an empty input it fails (Error or
\* Incomplete by the version of nom); main treats the two alike.
digit(i) ==
  LET k == CHOOSE j \in 0..Len(i) :
             /\ \A x \in 1..j : IsDigit(i[x])
             /\ j < Len(i) => ~IsDigit(i[j + 1])
  IN IF k = 0 THEN Error ELSE Done(Drop(i, k), Take(i, k))

\* pair!(char!('.'), nom::digit)
fraction(i) ==
  With(Char(i, "."), LAMBDA p :
    IF ~IsDone(p) THEN p
    ELSE With(digit(p.rest), LAMBDA d :
           IF ~IsDone(d) THEN d ELSE Done(d.rest, d.o)))

RECURSIVE Natural(_)
Natural(ds) ==
  IF ds = <<>> THEN 0
  ELSE 10 * Natural(Take(ds, Len(ds) - 1)) + DigitValue(ds[Len(ds)])

RECURSIVE Pow10(_)
Pow10(k) == IF k = 0 THEN 1 ELSE 10 * Pow10(k - 1)

\* FromStr::from_str on the recognized text: sign, integer part, fraction.
from_str(minus, ds, fs) ==
  LET v == Natural(ds) * ONE + (Natural(fs) * ONE) \div Pow10(Len(fs))
  IN IF minus THEN -v ELSE v

float_literal(i) ==
  With(Opt(Char(i, "-"), i), LAMBDA s :
    IF ~IsDone(s) THEN s
    ELSE With(digit(s.rest), LAMBDA d :
           IF ~IsDone(d) THEN d
           ELSE With(Opt(fraction(d.rest), d.rest), LAMBDA f :
                  IF ~IsDone(f) THEN f
                  ELSE Done(f.rest,
                            from_str(IsSome(s.o), d.o,
                                     IF IsSome(f.o) THEN Val(f.o) ELSE <<>>)))))

\* k float literals separated by commas: the nested separated_pair!s.
RECURSIVE Floats(_, _)
Floats(i, k) ==
  With(float_literal(i), LAMBDA f :
    IF ~IsDone(f) THEN f
    ELSE IF k = 1 THEN Done(f.rest, <<f.o>>)
    ELSE With(Char(f.rest, ","), LAMBDA c :
           IF ~IsDone(c) THEN c
           ELSE With(Floats(c.rest, k - 1), LAMBDA g :
                  IF ~IsDone(g) THEN g ELSE Done(g.rest, <<f.o>> \o g.o))))

\* preceded!(tag!(t), delimited!(char!('('), k float literals, char!(')')))
TagFloats(i, t, k) ==
  With(Tag(i, t), LAMBDA a :
    IF ~IsDone(a) THEN a
    ELSE With(Char(a.rest, "("), LAMBDA b :
           IF ~IsDone(b) THEN b
           ELSE With(Floats(b.rest, k), LAMBDA f :
                  IF ~IsDone(f) THEN f
                  ELSE With(Char(f.rest, ")"), LAMBDA c :
                         IF ~IsDone(c) THEN c ELSE Done(c.rest, f.o)))))

RECURSIVE any_wave(_)

\* preceded!(tag!(t), delimited!(char!('('), any_wave, char!(')')))
TagWave(i, t) ==
  With(Tag(i, t), LAMBDA a :
    IF ~IsDone(a) THEN a
    ELSE With(Char(a.rest, "("), LAMBDA b :
           IF ~IsDone(b) THEN b
           ELSE With(any_wave(b.rest), LAMBDA w :
                  IF ~IsDone(w) THEN w
                  ELSE With(Char(w.rest, ")"), LAMBDA c :
                         IF ~IsDone(c) THEN c ELSE Done(c.rest, w.o)))))

\* preceded!(tag!(t), delimited!(char!('('),
\*           separated_pair!(any_wave, char!(','), any_wave), char!(')')))
TagWavePair(i, t) ==
  With(Tag(i, t), LAMBDA a :
    IF ~IsDone(a) THEN a
    ELSE With(Char(a.rest, "("), LAMBDA b :
           IF ~IsDone(b) THEN b
           ELSE With(any_wave(b.rest), LAMBDA w1 :
                  IF ~IsDone(w1) THEN w1
                  ELSE With(Char(w1.rest, ","), LAMBDA s :
                         IF ~IsDone(s) THEN s
                         ELSE With(any_wave(s.rest), LAMBDA w2 :
                                IF ~IsDone(w2) THEN w2
                                ELSE With(Char(w2.rest, ")"), LAMBDA c :
                                       IF ~IsDone(c) THEN c
                                       ELSE Done(c.rest, <<w1.o, w2.o>>)))))))
TagNoise == <<"n", "o", "i", "s", "e">>
TagMul == <<"m", "u", "l">>
TagPulse == <<"p", "u", "l", "s", "e">>
TagSine == <<"s", "i", "n", "e">>
TagSlide == <<"s", "l", "i", "d", "e">>
TagAdd == <<"a", "d", "d">>
TagTriangle == <<"t", "r", "i", "a", "n", "g", "l", "e">>
TagDotAdd == <<".", "a", "d", "d">>
TagDotAdshr == <<".", "a", "d", "s", "h", "r">>
TagDotDelayed == <<".", "d", "e", "l", "a", "y", "e", "d">>
TagDotLooped == <<".", "l", "o", "o", "p", "e", "d", "(", ")">>
TagDotMul == <<".", "m", "u", "l">>

const_wave(i) ==
  With(float_literal(i), LAMBDA r : IF IsDone(r) THEN Done(r.rest, Const(r.o)) ELSE r)

noise_wave(i) ==
  With(TagWave(i, TagNoise), LAMBDA r :
    IF IsDone(r) THEN Done(r.rest, NoiseWave(r.o)) ELSE r)

product_wave(i) ==
  With(TagWavePair(i, TagMul), LAMBDA r :
    IF IsDone(r) THEN Done(r.rest, Product(r.o[1], r.o[2])) ELSE r)

pulse_wave(i) ==
  With(TagWavePair(i, TagPulse), LAMBDA r :
    IF IsDone(r) THEN Done(r.rest, PulseWave(r.o[1], r.o[2])) ELSE r)

sine_wave(i) ==
  With(TagWave(i, TagSine), LAMBDA r :
    IF IsDone(r) THEN Done(r.rest, SineWave(r.o)) ELSE r)

slide_wave(i) ==
  With(TagFloats(i, TagSlide, 3), LAMBDA r :
    IF IsDone(r) THEN Done(r.rest, SlideWave(r.o[1], r.o[2], r.o[3])) ELSE r)

sum_wave(i) ==
  With(TagWavePair(i, TagAdd), LAMBDA r :
    IF IsDone(r) THEN Done(r.rest, Sum(r.o[1], r.o[2])) ELSE r)

triangle_wave(i) ==
  With(TagWavePair(i, TagTriangle), LAMBDA r :
    IF IsDone(r) THEN Done(r.rest, TriangleWave(r.o[1], r.o[2])) ELSE r)

\* alt!: the alternatives in order; the first result that is not an Error.
BaseAlternative(i, k) ==
  CASE k = 1 -> const_wave(i)
    [] k = 2 -> noise_wave(i)
    [] k = 3 -> product_wave(i)
    [] k = 4 -> pulse_wave(i)
    [] k = 5 -> sine_wave(i)
    [] k = 6 -> slide_wave(i)
    [] k = 7 -> sum_wave(i)
    [] k = 8 -> triangle_wave(i)

RECURSIVE AltBase(_, _)
AltBase(i, k) ==
  IF k > 8 THEN Error
  ELSE With(BaseAlternative(i, k), LAMBDA r :
         IF r.res = "Error" THEN AltBase(i, k + 1) ELSE r)

base_wave(i) == AltBase(i, 1)

add_suffix(i) ==
  With(TagWave(i, TagDotAdd), LAMBDA r :
    IF IsDone(r) THEN Done(r.rest, [op |-> "Add", other |-> r.o]) ELSE r)

adshr_suffix(i) ==
  With(TagFloats(i, TagDotAdshr, 5), LAMBDA r :
    IF IsDone(r)
    THEN Done(r.rest, [op |-> "Adshr", a |-> r.o[1], d |-> r.o[2], s |-> r.o[3],
                       h |-> r.o[4], r |-> r.o[5]])
    ELSE r)

delayed_suffix(i) ==
  With(TagFloats(i, TagDotDelayed, 1), LAMBDA r :
    IF IsDone(r) THEN Done(r.rest, [op |-> "Delayed", time |-> r.o[1]]) ELSE r)

looped_suffix(i) ==
  With(Tag(i, TagDotLooped), LAMBDA r :
    IF IsDone(r) THEN Done(r.rest, [op |-> "Looped"]) ELSE r)

mul_suffix(i) ==
  With(TagWave(i, TagDotMul), LAMBDA r :
    IF IsDone(r) THEN Done(r.rest, [op |-> "Mul", other |-> r.o]) ELSE r)

SuffixAlternative(i, k) ==
  CASE k = 1 -> add_suffix(i)
    [] k = 2 -> adshr_suffix(i)
    [] k = 3 -> delayed_suffix(i)
    [] k = 4 -> looped_suffix(i)
    [] k = 5 -> mul_suffix(i)

RECURSIVE AltSuffix(_, _)
AltSuffix(i, k) ==
  IF k > 5 THEN Error
  ELSE With(SuffixAlternative(i, k), LAMBDA r :
         IF r.res = "Error" THEN AltSuffix(i, k + 1) ELSE r)

wave_suffix(i) == AltSuffix(i, 1)

\* many0!(wave_suffix): suffixes until one fails with an Error or the input
\* ends; ops are those parsed so far.
RECURSIVE many0(_, _)
many0(i, ops) ==
  IF i = <<>> THEN Done(i, ops)
  ELSE With(wave_suffix(i), LAMBDA r :
         IF r.res = "Error" THEN Done(i, ops)
         ELSE IF r.res = "Incomplete" THEN r
         ELSE IF r.rest = i THEN Error
         ELSE many0(r.rest, Append(ops, r.o)))

\* WaveOp::apply
apply(self, w) ==
  CASE self.op = "Add" -> Sum(w, self.other)
    [] self.op = "Adshr" -> WaveAdshr(w, self.a, self.d, self.s, self.h, self.r)
    [] self.op = "Delayed" -> Delayed(w, self.time)
    [] self.op = "Looped" -> Looped(w)
    [] self.op = "Mul" -> Product(w, self.other)

\* ops.into_iter().fold(wave, |wave, op| op.apply(wave))
RECURSIVE fold(_, _)
fold(wave0, ops) ==
  IF ops = <<>> THEN wave0 ELSE fold(apply(ops[1], wave0), Tail(ops))

\* The suffixes applied last to first.
RECURSIVE FoldBackwards(_, _)
FoldBackwards(wave0, ops) ==
  IF ops = <<>> THEN wave0
  ELSE FoldBackwards(apply(ops[Len(ops)], wave0), Take(ops, Len(ops) - 1))

\* Mutant: the suffixes are applied right to left.
any_wave_backwards(i) ==
  With(base_wave(i), LAMBDA b :
    IF ~IsDone(b) THEN b
    ELSE With(many0(b.rest, <<>>), LAMBDA m :
           IF ~IsDone(m) THEN m ELSE Done(m.rest, FoldBackwards(b.o, m.o))))

any_wave(i) ==
  With(base_wave(i), LAMBDA b :
    IF ~IsDone(b) THEN b
    ELSE With(many0(b.rest, <<>>), LAMBDA m :
           IF ~IsDone(m) THEN m ELSE Done(m.rest, fold(b.o, m.o))))

(***************************************************************************)
(* playsound's main: the text is parsed; only a text parsed to its end     *)
(* gives a wave, which is then handed to the playback device.              *)
(***************************************************************************)
AudioRate == 44100

\* The waveform text when no argument is given: b"sine(440)".
DefaultSpec == <<"s", "i", "n", "e", "(", "4", "4", "0", ")">>

\* Pieces that the texts tried exhaustively are made of.
Tokens ==
  {<<"2">>, TagSine \o <<"(">>, <<")">>, TagDotLooped,
   TagDotDelayed \o <<"(", "2", ")">>, TagDotAdd \o <<"(">>, <<" ">>, <<".">>}

RECURSIVE TokenTexts(_)
TokenTexts(k) ==
  IF k = 0 THEN {<<>>}
  ELSE LET shorter == TokenTexts(k - 1)
       IN shorter \cup {s \o t : s \in shorter, t \in Tokens}

\* Further texts, well formed and not, over the whole syntax.
Examples ==
  {DefaultSpec,
   <<"s", "i", "n", "e", "(", "4", "4", "0">>,
   <<"s", "i", "n", "e", "(", "4", "4", "0", ")", ".", "l", "o", "o", "p", "e", "d", "(", ")">>,
   <<"s", "i", "n", "e", "(", " ", "4", "4", "0", ")">>,
   <<"s", "i", "n", "e", "(", "4", "4", "0", ")", "x">>,
   <<"s", "i", "n", "e", "(", "4", "4", "0", ")", ")">>,
   <<"4", "4", "0">>,
   <<"4", "4", "0", ".", "5">>,
   <<"-", "1", ".", "5">>,
   <<"n", "o", "i", "s", "e", "(", "2", "2", "0", ")">>,
   <<"m", "u", "l", "(", "2", ",", "0", ".", "5", ")">>,
   <<"p", "u", "l", "s", "e", "(", "2", ",", "0", ".", "5", ")">>,
   <<"s", "l", "i", "d", "e", "(", "0", ",", "1", ",", "-", "2", ")">>,
   <<"a", "d", "d", "(", "2", ",", "s", "i", "n", "e", "(", "2", ")", ")">>,
   <<"t", "r", "i", "a", "n", "g", "l", "e", "(", "2", ",", "0", ".", "5", ")">>,
   <<"2", ".", "5", ".", "a", "d", "s", "h", "r", "(", "0", ",", "0", ".", "2", "5", ",", "1", ",", "0", ",", "2", ")">>,
   <<"2", ".", "a", "d", "d", "(", "2", ")", ".", "l", "o", "o", "p", "e", "d", "(", ")">>,
   <<"2", ".", "5", ".", "m", "u", "l", "(", "s", "i", "n", "e", "(", "2", ")", ")", ".", "a", "d", "d", "(", "2", ".", "5", ")">>,
   <<"s", "i", "n", "e", "(", "2", ")", ".", "d", "e", "l", "a", "y", "e", "d", "(", "0", ".", "5", ")", ".", "l", "o", "o", "p", "e", "d", "(", ")">>,
   <<"a", "d", "d", "(", "2", " ", ",", "2", ")">>,
   <<"s", "l", "i", "d", "e", "(", "0", ",", "1", ")">>,
   <<"s", "i", "n", "e", "(", "2", ")", ".", "l", "o", "o", "p", "e", "d", "(", ")", " ">>,
   <<"2", ".", "5", ".", "l", "o", "o", "p">>,
   <<"+", "2", ".", "5">>,
   <<"s", "i", "n", "e", "(", "-", "2", ".", "5", ")">>}

Texts == TokenTexts(MaxTokens) \cup Examples

ParseInit ==
  /\ spec \in Texts
  /\ pc = "main"
  /\ wave = None
  /\ fresh = None
  /\ twin = None
  /\ out = None
  /\ twinOut = None
  /\ trace = <<>>
  /\ n = 0
  /\ period = 0

\* Mutant: the rest of the input is not looked at.
MainParseIgnoresRest ==
  /\ pc = "main"
  /\ \E r \in {any_wave(spec)} :
       IF IsDone(r)
       THEN wave' = r.o /\ fresh' = r.o /\ twin' = r.o /\ pc' = "parsed"
       ELSE pc' = "failed" /\ UNCHANGED <<wave, fresh, twin>>
  /\ UNCHANGED <<out, twinOut, trace, n, spec, period>>

\* main, to the match on any_wave(spec): a wave, or "Failed to parse spec."
MainParse ==
  /\ pc = "main"
  /\ \E r \in {any_wave(spec)} :
       IF IsDone(r) /\ r.rest = <<>>
       THEN wave' = r.o /\ fresh' = r.o /\ twin' = r.o /\ pc' = "parsed"
       ELSE pc' = "failed" /\ UNCHANGED <<wave, fresh, twin>>
  /\ UNCHANGED <<out, twinOut, trace, n, spec, period>>

\* main, from there: the wave goes to the playback device in a WaveCallback.
MainOpen ==
  /\ pc = "parsed"
  /\ pc' = "playing"
  /\ period' = ONE \div AudioRate
  /\ UNCHANGED <<wave, fresh, twin, out, twinOut, trace, n, spec>>

ParseNext == MainParse \/ MainOpen

ParseSpec == ParseInit /\ [][ParseNext]_vars

(***************************************************************************)
(* Reading the trace.                                                      *)
(***************************************************************************)
Idx == 1..Len(trace)

NextOf(e, kind) == e.op = "next" /\ e.kind = kind

\* No reset() reached the generator of entry i between entries i and j.
NoResetBetween(i, j) ==
  \A k \in i..j : ~(trace[k].op = "reset" /\ trace[k].path = trace[i].path)

\* Entries i < j are calls of next on the same generator of the given kind,
\* with no reset() of it in between.
SameRun(i, j, kind) ==
  /\ i < j
  /\ NextOf(trace[i], kind)
  /\ NextOf(trace[j], kind)
  /\ trace[i].path = trace[j].path
  /\ NoResetBetween(i, j)

NextCalls(e) == {k \in 1..Len(e.calls) : e.calls[k].op = "next"}
ResetCalls(e) == {k \in 1..Len(e.calls) : e.calls[k].op = "reset"}

(***************************************************************************)
(* C1.  After reset(), replaying next with any step sequence gives the     *)
(* same results (values and ends of stream) as a freshly constructed graph *)
(* driven with that step sequence: the graph and its fresh twin agree on   *)
(* every result and hold the same state.                                   *)
(***************************************************************************)
C1_ResetReplaysFresh == out = twinOut /\ wave = twin

\* A graph whose state reset() had to rewind, replayed for two calls.
C1_Witness ==
  /\ n >= 2
  /\ trace # <<>>
  /\ trace[1].op = "reset"
  /\ trace[1].pre # trace[1].post
  /\ IsSome(out)

(***************************************************************************)
(* C2.  Sum.next ends iff both children end on that call; with exactly one *)
(* child yielding it returns that child's value unchanged; with both it    *)
(* returns the sum.  A number on the right of + is a constant that never   *)
(* ends, so such a sum never ends.                                         *)
(***************************************************************************)
C2_SumEntry(e) ==
  /\ Len(e.calls) = 2
  /\ e.calls[1] = Call("wave1", "next", e.step, e.calls[1].out)
  /\ e.calls[2] = Call("wave2", "next", e.step, e.calls[2].out)
  /\ LET o1 == e.calls[1].out
         o2 == e.calls[2].out
     IN /\ (e.out = None) <=> (o1 = None /\ o2 = None)
        /\ (IsSome(o1) /\ o2 = None) => e.out = o1
        /\ (o1 = None /\ IsSome(o2)) => e.out = o2
        /\ (IsSome(o1) /\ IsSome(o2)) => e.out = Some(Val(o1) + Val(o2))
  /\ e.pre.wave2.kind = "Const" => e.out # None

C2_SumNext == \A i \in Idx : NextOf(trace[i], "Sum") => C2_SumEntry(trace[i])

\* A finite wave that has ended, plus a constant: the sum still yields.
C2_Witness ==
  \E i \in Idx :
    /\ NextOf(trace[i], "Sum")
    /\ trace[i].pre.wave2.kind = "Const"
    /\ trace[i].calls[1].out = None
    /\ trace[i].out = Some(trace[i].pre.wave2.value)

(***************************************************************************)
(* C3.  Product.next yields iff both children yield on that call, the      *)
(* value being the product, and ends on every call in which a child ends;  *)
(* so a finite wave times a constant ends exactly when the finite wave     *)
(* does.                                                                   *)
(***************************************************************************)
C3_ProductEntry(e) ==
  /\ IsSome(e.out) <=>
       /\ Len(e.calls) = 2
       /\ \A k \in 1..2 : e.calls[k].op = "next" /\ IsSome(e.calls[k].out)
  /\ IsSome(e.out) => e.out = Some(Mul(Val(e.calls[1].out), Val(e.calls[2].out)))
  /\ (\E k \in 1..Len(e.calls) : e.calls[k].out = None) => e.out = None
  /\ e.pre.wave2.kind = "Const" => (IsSome(e.out) <=> IsSome(e.calls[1].out))
  /\ e.pre.wave1.kind = "Const" => (IsSome(e.out) <=> IsSome(e.calls[2].out))

C3_ProductNext ==
  \A i \in Idx : NextOf(trace[i], "Product") => C3_ProductEntry(trace[i])

\* An envelope times a constant: samples first, then the end when the envelope ends.
C3_Witness ==
  \E i, j \in Idx :
    /\ SameRun(i, j, "Product")
    /\ trace[i].pre.wave2.kind = "Const"
    /\ IsSome(trace[i].out)
    /\ trace[j].out = None

(***************************************************************************)
(* C4.  On every Product.next(step) both children are advanced exactly     *)
(* once by step, whichever of them ends.                                   *)
(***************************************************************************)
C4_ProductAdvancesBoth ==
  \A i \in Idx :
    NextOf(trace[i], "Product") =>
      /\ Len(trace[i].calls) = 2
      /\ trace[i].calls[1] = Call("wave1", "next", trace[i].step, trace[i].calls[1].out)
      /\ trace[i].calls[2] = Call("wave2", "next", trace[i].step, trace[i].calls[2].out)


(***************************************************************************)
(* C5.  If the wrapped graph yields a sample before it first ends, counted *)
(* from construction or reset(), then under endless next calls with        *)
(* positive steps the Looped graph never ends for good: from every state   *)
(* a later call yields a sample.                                           *)
(***************************************************************************)
\* The first next on w yields, whatever the positive step.
YieldsBeforeEnd(w) == \A step \in Steps \ {0} : IsSome(WaveNext(w, step, <<>>).out)

RECURSIVE AlwaysEmpty(_)
AlwaysEmpty(w) ==
  CASE w.kind = "Adshr" ->
         /\ w.attack_time = 0
         /\ w.decay_time = 0
         /\ w.hold_time = 0
         /\ w.release_time = 0
    [] w.kind = "Product" -> AlwaysEmpty(w.wave1) \/ AlwaysEmpty(w.wave2)
    [] w.kind = "Sum" -> AlwaysEmpty(w.wave1) /\ AlwaysEmpty(w.wave2)
    [] w.kind \in {"Looped", "Delayed"} -> AlwaysEmpty(w.wave)
    [] OTHER -> FALSE

C6_LoopedEntry(e) ==
  LET c == e.calls
  IN /\ Len(c) >= 1
     /\ c[1] = Call("wave", "next", e.step, c[1].out)
     /\ IF IsSome(c[1].out)
        THEN Len(c) = 1 /\ e.out = c[1].out
        ELSE /\ Len(c) = 3
             /\ c[2] = Call("wave", "reset", 0, None)
             /\ c[3] = Call("wave", "next", e.step, c[3].out)
             /\ e.out = c[3].out
     /\ Cardinality(NextCalls(e)) <= 2
     /\ Cardinality(ResetCalls(e)) <= 1
     /\ AlwaysEmpty(e.pre.wave) => (e.out = None /\ Len(c) = 3)

C6_LoopedNext ==
  \A i \in Idx : NextOf(trace[i], "Looped") => C6_LoopedEntry(trace[i])

\* An empty child: two calls in a row that both reset, retry and end.
C6_Witness ==
  \E i, j \in Idx :
    /\ SameRun(i, j, "Looped")
    /\ AlwaysEmpty(trace[i].pre.wave)
    /\ Len(trace[i].calls) = 3 /\ trace[i].out = None
    /\ Len(trace[j].calls) = 3 /\ trace[j].out = None

(***************************************************************************)
(* C7.  While Delayed's time is below the delay, next ends and does not    *)
(* call the child, except on the call where the time first exceeds the     *)
(* delay: there the child is advanced once by the overshoot and the result *)
(* is dropped.  Between two resets that happens at most once.              *)
(***************************************************************************)
Delaying(e) == NextOf(e, "Delayed") /\ e.pre.time < e.pre.delay

Corrective(e) == Delaying(e) /\ e.calls # <<>>

C7_DelayingEntry(e) ==
  LET t == e.pre.time + e.step
  IN /\ e.out = None
     /\ e.post.time = t
     /\ IF t > e.pre.delay
        THEN /\ Len(e.calls) = 1
             /\ e.calls[1] = Call("wave", "next", t - e.pre.delay, e.calls[1].out)
        ELSE e.calls = <<>> /\ e.post.wave = e.pre.wave

C7_DelayedDelays ==
  /\ \A i \in Idx : Delaying(trace[i]) => C7_DelayingEntry(trace[i])
  /\ \A i \in Idx :
       Corrective(trace[i]) =>
         \A j \in Idx : SameRun(i, j, "Delayed") => ~Corrective(trace[j])

\* A call below the delay that leaves the child alone, then the crossing call
\* that advances the child by an overshoot smaller than the step.
C7_Witness ==
  \E i, j \in Idx :
    /\ SameRun(i, j, "Delayed")
    /\ Delaying(trace[i]) /\ trace[i].calls = <<>> /\ trace[i].step > 0
    /\ Corrective(trace[j])
    /\ trace[j].calls[1].step < trace[j].step
    /\ IsSome(trace[j].calls[1].out)

(***************************************************************************)
(* C8.  Once Delayed's time has reached the delay, every next(step)        *)
(* advances the child once by step and returns its result unchanged, and   *)
(* until reset() the time stays as it is: no later call delays again.      *)
(***************************************************************************)
C8_PassingEntry(e) ==
  /\ Len(e.calls) = 1
  /\ e.calls[1] = Call("wave", "next", e.step, e.out)
  /\ e.post.time = e.pre.time

C8_DelayedPasses ==
  /\ \A i \in Idx :
       (NextOf(trace[i], "Delayed") /\ trace[i].pre.time >= trace[i].pre.delay)
         => C8_PassingEntry(trace[i])
  /\ \A i \in Idx :
       (NextOf(trace[i], "Delayed") /\ trace[i].post.time >= trace[i].post.delay) =>
         \A j \in Idx :
           SameRun(i, j, "Delayed")
             => /\ ~Delaying(trace[j])
                /\ trace[j].pre.time = trace[i].post.time
                /\ C8_PassingEntry(trace[j])

\* After the delay: a call that passes a sample through, and a later one that
\* passes the child's end through.
C8_Witness ==
  \E i, j \in Idx :
    /\ SameRun(i, j, "Delayed")
    /\ trace[i].pre.delay > 0
    /\ ~Delaying(trace[i]) /\ IsSome(trace[i].out) /\ trace[i].step > 0
    /\ trace[j].out = None

(***************************************************************************)
(* C9.  The envelope's time is the sum of the steps of its earlier         *)
(* yielding calls, and it ends on a call exactly when that time has        *)
(* reached attack + decay + hold + release; below that it yields.          *)
(***************************************************************************)
Total(w) == w.attack_time + w.decay_time + w.hold_time + w.release_time

RECURSIVE SumSteps(_)
SumSteps(S) ==
  IF S = {} THEN 0
  ELSE LET k == CHOOSE x \in S : TRUE
       IN trace[k].step + SumSteps(S \ {k})

\* The earlier yielding calls of the generator of entry i, since its last reset.
YieldedBefore(i) ==
  {k \in 1..(i - 1) :
     /\ trace[k].path = trace[i].path
     /\ trace[k].op = "next"
     /\ IsSome(trace[k].out)
     /\ NoResetBetween(k, i)}

C9_AdshrEndsAtTotal ==
  \A i \in Idx :
    NextOf(trace[i], "Adshr") =>
      /\ trace[i].pre.time = SumSteps(YieldedBefore(i))
      /\ (trace[i].out = None) <=> (trace[i].pre.time >= Total(trace[i].pre))

\* The claim as written: the envelope ends only when the time exceeds the sum.
C9_AdshrEndsPastTotal ==
  \A i \in Idx :
    NextOf(trace[i], "Adshr") =>
      ((trace[i].out = None) <=> (trace[i].pre.time > Total(trace[i].pre)))

\* An envelope called with its time exactly at the sum of its durations.
C9_Witness ==
  \E i \in Idx :
    /\ NextOf(trace[i], "Adshr")
    /\ Total(trace[i].pre) > 0
    /\ trace[i].pre.time = Total(trace[i].pre)
    /\ trace[i].out = None

(***************************************************************************)
(* C10.  Once the envelope has ended, every later next, whatever the step, *)
(* ends too and leaves its time unchanged, until reset(), which puts the   *)
(* time back to 0 and lets it start again.                                 *)
(***************************************************************************)
\* Entry j is the first call of next on the generator that entry i reset.
FirstAfterReset(i, j) ==
  /\ i < j
  /\ trace[i].op = "reset"
  /\ trace[j].op = "next"
  /\ trace[i].path = trace[j].path
  /\ \A k \in (i + 1)..(j - 1) : trace[k].path # trace[i].path

C10_AdshrEndsForGood ==
  /\ \A i \in Idx :
       (NextOf(trace[i], "Adshr") /\ trace[i].out = None)
         => trace[i].post = trace[i].pre
  /\ \A i \in Idx :
       (NextOf(trace[i], "Adshr") /\ trace[i].out = None) =>
         \A j \in Idx :
           SameRun(i, j, "Adshr")
             => trace[j].out = None /\ trace[j].pre.time = trace[i].pre.time
  /\ \A i \in Idx :
       (trace[i].op = "reset" /\ trace[i].kind = "Adshr")
         => trace[i].post = [trace[i].pre EXCEPT !.time = 0]
  /\ \A i \in Idx :
       (trace[i].op = "reset" /\ trace[i].kind = "Adshr") =>
         \A j \in Idx :
           FirstAfterReset(i, j)
             => /\ trace[j].pre.time = 0
                /\ trace[j].out = AdshrValue(Adshr(trace[j].pre.attack_time,
                                                   trace[j].pre.decay_time,
                                                   trace[j].pre.sustain_level,
                                                   trace[j].pre.hold_time,
                                                   trace[j].pre.release_time))

\* An envelope reset after it had run to its end: it yields again from time 0,
\* ends again, and is then called once more with a positive step.
C10_Witness ==
  /\ trace # <<>>
  /\ trace[1].op = "reset"
  /\ trace[1].kind = "Adshr"
  /\ trace[1].pre.time >= Total(trace[1].pre)
  /\ \E k \in Idx : FirstAfterReset(1, k) /\ IsSome(trace[k].out)
  /\ \E i, j \in Idx :
       /\ SameRun(i, j, "Adshr")
       /\ trace[i].out = None
       /\ trace[j].out = None
       /\ trace[j].step > 0

(***************************************************************************)
(* Generators run by themselves over the steps of the root's calls.        *)
(***************************************************************************)
\* The calls of next made on the root since construction or the last reset().
RootCalls == SelectSeq(trace, LAMBDA e : e.path = <<>> /\ e.op = "next")

\* The result of the k-th of those calls, had g been driven alone from the
\* start with the same steps.
RECURSIVE AloneAfter(_, _)
AloneAfter(g, k) ==
  IF k = 0 THEN Result(g, None, <<>>)
  ELSE With(AloneAfter(g, k - 1), LAMBDA r : WaveNext(r.wave, RootCalls[k].step, <<>>))

(***************************************************************************)
(* C11.  wave.adshr(a, d, s, h, r) behaves as the product of a freshly     *)
(* built envelope and the wave: on every call it yields iff the envelope   *)
(* and the wave, each run by itself over the same steps, both yield, the   *)
(* value being envelope value times wave value; it ends on every call on   *)
(* which either of them ends.                                              *)
(***************************************************************************)
EnvelopedAs(w, a, r) ==
  \A k \in 1..Len(RootCalls) :
    LET e == AloneAfter(Adshr(a, 0, ONE, 0, r), k).out
        v == AloneAfter(w, k).out
    IN RootCalls[k].out =
         IF IsSome(e) /\ IsSome(v) THEN Some(Mul(Val(e), Val(v))) ELSE None

C11_AdshrIsEnvelopeTimesWave ==
  \A w \in {Const(ONE), Slide1} \cup FiniteWaves, a \in Durs, r \in Durs :
    fresh = WaveAdshr(w, a, 0, ONE, 0, r) => EnvelopedAs(w, a, r)

\* An envelope around a delayed wave: the first call ends because the wave has
\* not started, the second yields, the third ends because the envelope is over.
C11_Witness ==
  \E a \in Durs \ {0}, r \in Durs \ {0} :
    /\ fresh = WaveAdshr(Delayed(Const(2 * ONE), Eighth), a, 0, ONE, 0, r)
    /\ Len(RootCalls) = 3
    /\ RootCalls[1].out = None
    /\ AloneAfter(Adshr(a, 0, ONE, 0, r), 1).out # None
    /\ RootCalls[2].out = Some(2 * ONE)
    /\ RootCalls[3].out = None
    /\ AloneAfter(Delayed(Const(2 * ONE), Eighth), 3).out # None

(***************************************************************************)
(* C12.  After every next the phase of Sine, Pulse and Triangle lies in    *)
(* [0, 1), whatever the step and whatever the frequency (positive, zero or *)
(* negative) the frequency sub-wave yields.                                *)
(***************************************************************************)
PhaseOscillators == {"Sine", "Pulse", "Triangle"}

C12_PhaseInUnitInterval ==
  \A i \in Idx :
    (trace[i].op = "next" /\ trace[i].kind \in PhaseOscillators)
      => (0 <= trace[i].post.phase /\ trace[i].post.phase < ONE)

(***************************************************************************)
(* C13.  After every next the phase of Noise lies in [0, 64), so that its  *)
(* integer part is a bit index 0..63; the seed changes on a call iff the   *)
(* advanced phase reached 64 on that call, and the new seed is then        *)
(* (seed * 2862933555777941757 + 3037000493) mod 2^64.                     *)
(***************************************************************************)
\* The phase a yielding call of Noise advanced to, before any wrap.
NoiseAdvanced(e) == e.pre.phase + Mul(Mul(2 * ONE, Val(e.calls[1].out)), e.step)

C13_NoiseEntry(e) ==
  /\ 0 <= e.post.phase /\ e.post.phase < 64 * ONE
  /\ Trunc(e.post.phase) \in 0..63
  /\ IsSome(e.out) =>
       /\ (e.post.seed # e.pre.seed) <=> (NoiseAdvanced(e) >= 64 * ONE)
       /\ (NoiseAdvanced(e) >= 64 * ONE) => e.post.seed = LcgStep(e.pre.seed)

C13_NoisePhaseAndSeed ==
  \A i \in Idx : NextOf(trace[i], "Noise") => C13_NoiseEntry(trace[i])

(***************************************************************************)
(* C14.  Sine, Pulse, Triangle and Noise are strict in their sub-waves: a  *)
(* call on which the frequency or the duty sub-wave ends returns the end   *)
(* of stream and leaves the oscillator's phase (and Noise's seed) as they  *)
(* were; the oscillator yields iff all its sub-waves yield on that call.   *)
(***************************************************************************)
SubWaves(kind) == IF kind \in {"Pulse", "Triangle"} THEN 2 ELSE 1

C14_OscillatorEntry(e) ==
  /\ IsSome(e.out) <=>
       /\ Len(e.calls) = SubWaves(e.kind)
       /\ \A k \in 1..Len(e.calls) : IsSome(e.calls[k].out)
  /\ (\E k \in 1..Len(e.calls) : e.calls[k].out = None) =>
       /\ e.out = None
       /\ e.post.phase = e.pre.phase
       /\ e.kind = "Noise" => e.post.seed = e.pre.seed
  /\ \A k \in 1..Len(e.calls) : e.calls[k].op = "next" /\ e.calls[k].step = e.step

C14_OscillatorsStrict ==
  \A i \in Idx :
    (trace[i].op = "next" /\ trace[i].kind \in PhaseOscillators \cup {"Noise"})
      => C14_OscillatorEntry(trace[i])

\* A pulse whose frequency yields and whose duty has not started: the call
\* ends with the phase where it was; a later call of the same pulse yields.
C14_Witness ==
  \E i, j \in Idx :
    /\ SameRun(i, j, "Pulse")
    /\ Len(trace[i].calls) = 2
    /\ IsSome(trace[i].calls[1].out)
    /\ Val(trace[i].calls[1].out) # 0
    /\ trace[i].step > 0
    /\ trace[i].calls[2].out = None
    /\ IsSome(trace[j].out)

(***************************************************************************)
(* C15.  Sum is commutative: Sum(a, b) and Sum(b, a), driven with the same *)
(* steps, return the same result on every call (values and ends of stream) *)
(* and leave a and b in the same states after every call.                  *)
(***************************************************************************)
C15_SumCommutes ==
  fresh.kind = "Sum" =>
    \A k \in 1..Len(RootCalls) :
      LET swapped == AloneAfter(Sum(fresh.wave2, fresh.wave1), k)
      IN /\ swapped.out = RootCalls[k].out
         /\ swapped.wave.wave1 = RootCalls[k].post.wave2
         /\ swapped.wave.wave2 = RootCalls[k].post.wave1

\* Two different operands: a call on which only the second yields, and a call
\* on which both yield.
C15_Witness ==
  /\ fresh.kind = "Sum"
  /\ fresh.wave1 # fresh.wave2
  /\ \E i, j \in 1..Len(RootCalls) :
       /\ RootCalls[i].calls[1].out = None
       /\ IsSome(RootCalls[i].calls[2].out)
       /\ IsSome(RootCalls[j].calls[1].out)
       /\ IsSome(RootCalls[j].calls[2].out)
       /\ Val(RootCalls[j].calls[1].out) # Val(RootCalls[j].calls[2].out)

(***************************************************************************)
(* C16.  Noise is deterministic.  A noise generator is built with the      *)
(* fixed seed and phase 0; every sample it yields is +1 or -1 and is the   *)
(* bit of the seed at the integer part of the phase, both as held before   *)
(* the call, so two calls with the same seed and phase yield the same      *)
(* sample whatever the frequency and step; and two generators built alike  *)
(* and driven with the same steps return the same results.                 *)
(***************************************************************************)
YieldingNoise(e) == NextOf(e, "Noise") /\ IsSome(e.out)

C16_NoiseDeterministic ==
  /\ \A i \in Idx :
       YieldingNoise(trace[i]) =>
         /\ trace[i].out \in {Some(ONE), Some(-ONE)}
         /\ trace[i].out = Some(NoiseValue(trace[i].pre.seed, trace[i].pre.phase))
  /\ \A i \in Idx :
       YieldingNoise(trace[i]) =>
         \A j \in Idx :
           (/\ YieldingNoise(trace[j])
            /\ trace[i].pre.seed = trace[j].pre.seed
            /\ trace[i].pre.phase = trace[j].pre.phase)
             => trace[i].out = trace[j].out
  /\ fresh.kind = "Noise" =>
       /\ fresh.seed = NOISE_INIT_SEED /\ fresh.phase = 0
       /\ out = twinOut
       /\ wave.seed = twin.seed /\ wave.phase = twin.phase

\* A noise generator that yielded -1 and +1 and has replaced its seed, with
\* its independently built twin in step.
C16_Witness ==
  /\ fresh.kind = "Noise"
  /\ wave.seed # NOISE_INIT_SEED
  /\ twin.seed = wave.seed
  /\ \E i, j \in Idx :
       /\ YieldingNoise(trace[i]) /\ trace[i].out = Some(ONE)
       /\ YieldingNoise(trace[j]) /\ trace[j].out = Some(-ONE)

(***************************************************************************)
(* C19.  Sine yields sin(2*pi*phase) of the phase held before the call and *)
(* then advances the phase by frequency*step modulo 1.  With a constant    *)
(* frequency and step whose product is m eighths, the k-th sample after    *)
(* construction or reset() is the sine at m*(k-1) eighths of a turn: for   *)
(* one eighth 0, 0.707, 1, 0.707, 0, -0.707, -1, -0.707, 0, a period of 8  *)
(* calls starting from 0.                                                  *)
(***************************************************************************)
C19_SineSamples ==
  /\ \A i \in Idx :
       (NextOf(trace[i], "Sine") /\ IsSome(trace[i].out)) =>
         /\ trace[i].out = Some(SinTurn(trace[i].pre.phase))
         /\ trace[i].post.phase =
              FMod(trace[i].pre.phase + Mul(Val(trace[i].calls[1].out), trace[i].step), ONE)
  /\ \A f \in {ONE, ONE \div 2}, m \in 1..2 :
       (fresh = SineWave(Const(f)) /\ Mul(f, period) = m * Eighth) =>
         \A k \in 1..Len(RootCalls) :
           RootCalls[k].out = Some(SinEighths[((m * (k - 1)) % 8) + 1])

\* The sine test after a reset that rewound the phase: nine samples, the
\* ninth being the first of the next period.
C19_Witness ==
  /\ fresh.kind = "Sine"
  /\ Mul(fresh.freq.value, period) = Eighth
  /\ trace # <<>>
  /\ trace[1].op = "reset"
  /\ trace[1].pre.phase # 0
  /\ Len(RootCalls) = 9
  /\ RootCalls[2].out = Some(707)
  /\ RootCalls[7].out = Some(-ONE)
  /\ RootCalls[9].out = Some(0)

(***************************************************************************)
(* C20.  Triangle yields 2*phase/duty - 1 when phase < duty and            *)
(* 1 - 2*(phase - duty)/(1 - duty) otherwise, of the phase held before the *)
(* call.  With frequency 1.0, duty 0.8 and step 0.1 the first twelve       *)
(* samples are -1, -0.75, -0.5, -0.25, 0, 0.25, 0.5, 0.75, 1, 0, -1,       *)
(* -0.75; with 0 < duty < 1 and the phase in [0, 1) every sample lies in   *)
(* [-1, 1].                                                                *)
(***************************************************************************)
TriangleTest == <<-1000, -750, -500, -250, 0, 250, 500, 750, 1000, 0, -1000, -750>>

C20_TriangleEntry(e) ==
  LET phase == e.pre.phase
      duty == Val(e.calls[2].out)
  IN /\ e.out = Some(IF phase < duty
                      THEN (2 * phase * ONE) \div duty - ONE
                      ELSE ONE - (2 * (phase - duty) * ONE) \div (ONE - duty))
     /\ (0 < duty /\ duty < ONE /\ 0 <= phase /\ phase < ONE)
          => (-ONE <= Val(e.out) /\ Val(e.out) <= ONE)

C20_TriangleSamples ==
  /\ \A i \in Idx :
       (NextOf(trace[i], "Triangle") /\ IsSome(trace[i].out))
         => C20_TriangleEntry(trace[i])
  /\ (fresh = TriangleWave(Const(ONE), Const((4 * ONE) \div 5)) /\ period = Tenth) =>
       \A k \in 1..Len(RootCalls) :
         k <= Len(TriangleTest) => RootCalls[k].out = Some(TriangleTest[k])

\* The triangle test run to its twelfth sample.
C20_Witness ==
  /\ fresh = TriangleWave(Const(ONE), Const((4 * ONE) \div 5))
  /\ period = Tenth
  /\ Len(RootCalls) = 12
  /\ RootCalls[9].out = Some(ONE)
  /\ RootCalls[10].out = Some(0)
  /\ RootCalls[12].out = Some(-750)

(***************************************************************************)
(* The grammar of waveform texts, read as a definition of the texts it     *)
(* derives:                                                                *)
(*   expr   := base (suffix)*                                              *)
(*   base   := number | noise(expr) | mul(expr,expr) | pulse(expr,expr)    *)
(*           | sine(expr) | slide(number,number,number) | add(expr,expr)   *)
(*           | triangle(expr,expr)                                         *)
(*   suffix := .add(expr) | .adshr(number,number,number,number,number)     *)
(*           | .delayed(number) | .looped() | .mul(expr)                   *)
(*   number := ["-"] digits ["." digits]                                   *)
(***************************************************************************)
AllDigits(s) == s # <<>> /\ \A k \in 1..Len(s) : IsDigit(s[k])

IsNumber(s) ==
  LET b == IF s # <<>> /\ s[1] = "-" THEN Tail(s) ELSE s
  IN \/ AllDigits(b)
     \/ \E k \in 2..(Len(b) - 1) :
          b[k] = "." /\ AllDigits(Take(b, k - 1)) /\ AllDigits(Drop(b, k))

\* s is t, an opening parenthesis, something, and a closing parenthesis.
Wrapped(s, t) ==
  /\ Len(s) >= Len(t) + 2
  /\ Take(s, Len(t) + 1) = t \o <<"(">>
  /\ s[Len(s)] = ")"

Inside(s, t) == SubSeq(s, Len(t) + 2, Len(s) - 1)

RECURSIVE IsNumbers(_, _)
IsNumbers(s, k) ==
  IF k = 1 THEN IsNumber(s)
  ELSE \E c \in 2..(Len(s) - 1) :
         s[c] = "," /\ IsNumber(Take(s, c - 1)) /\ IsNumbers(Drop(s, c), k - 1)

RECURSIVE IsExpr(_)
RECURSIVE IsBase(_)
RECURSIVE IsSuffix(_)
RECURSIVE IsSuffixes(_)

IsExprPair(s) ==
  \E c \in 2..(Len(s) - 1) :
    s[c] = "," /\ IsExpr(Take(s, c - 1)) /\ IsExpr(Drop(s, c))

IsBase(s) ==
  \/ IsNumber(s)
  \/ Wrapped(s, TagNoise) /\ IsExpr(Inside(s, TagNoise))
  \/ Wrapped(s, TagMul) /\ IsExprPair(Inside(s, TagMul))
  \/ Wrapped(s, TagPulse) /\ IsExprPair(Inside(s, TagPulse))
  \/ Wrapped(s, TagSine) /\ IsExpr(Inside(s, TagSine))
  \/ Wrapped(s, TagSlide) /\ IsNumbers(Inside(s, TagSlide), 3)
  \/ Wrapped(s, TagAdd) /\ IsExprPair(Inside(s, TagAdd))
  \/ Wrapped(s, TagTriangle) /\ IsExprPair(Inside(s, TagTriangle))

IsSuffix(s) ==
  \/ Wrapped(s, TagDotAdd) /\ IsExpr(Inside(s, TagDotAdd))
  \/ Wrapped(s, TagDotAdshr) /\ IsNumbers(Inside(s, TagDotAdshr), 5)
  \/ Wrapped(s, TagDotDelayed) /\ IsNumber(Inside(s, TagDotDelayed))
  \/ s = TagDotLooped
  \/ Wrapped(s, TagDotMul) /\ IsExpr(Inside(s, TagDotMul))

IsSuffixes(s) ==
  \/ s = <<>>
  \/ \E k \in 1..Len(s) : IsSuffix(Take(s, k)) /\ IsSuffixes(Drop(s, k))

IsExpr(s) == \E k \in 1..Len(s) : IsBase(Take(s, k)) /\ IsSuffixes(Drop(s, k))

Occurrences(s, c) == Cardinality({k \in 1..Len(s) : s[k] = c})

\* main went on with a wave.
Parsed == pc \in {"parsed", "playing"}

(***************************************************************************)
(* C17.  A text gives a wave only if it is derived by the grammar and the  *)
(* parser consumed all of it: a text with text left over, with unbalanced  *)
(* parentheses or with a blank in it fails as a whole, and after a failure *)
(* there is no wave, and none reaches the playback device.                 *)
(***************************************************************************)
C17_ParseAllOrNothing ==
  /\ Parsed =>
       /\ IsExpr(spec)
       /\ IsDone(any_wave(spec))
       /\ any_wave(spec).rest = <<>>
       /\ wave = any_wave(spec).o
       /\ Occurrences(spec, "(") = Occurrences(spec, ")")
       /\ Occurrences(spec, " ") = 0
  /\ ~Parsed => wave = None /\ pc # "playing"
  /\ pc = "failed" => fresh = None /\ twin = None

\* A text that starts with a whole waveform and goes on: no wave.
C17_Witness ==
  /\ pc = "failed"
  /\ IsDone(any_wave(spec))
  /\ any_wave(spec).rest # <<>>
  /\ wave = None

(***************************************************************************)
(* C18.  Suffixes are applied left to right, each wrapping the wave built  *)
(* from all the text before it: text.looped() builds Looped of the wave of *)
(* text, text.delayed(x) Delayed of it, text.add(e) and text.mul(e) build  *)
(* Sum and Product with that wave first and the wave of e second.          *)
(* `sine(440).looped()` builds Looped(Sine(constant 440)).                 *)
(***************************************************************************)
\* The wave of a text that is a whole waveform when followed by ")".
PrefixWave(s) ==
  With(any_wave(s \o <<")">>), LAMBDA r :
    IF IsDone(r) /\ r.rest = <<")">> THEN Some(r.o) ELSE None)

\* The value of a text that is a whole number when followed by ")".
PrefixNumber(s) ==
  With(float_literal(s \o <<")">>), LAMBDA r :
    IF IsDone(r) /\ r.rest = <<")">> THEN Some(r.o) ELSE None)

C18_Suffix(pw, s) ==
  /\ s = TagDotLooped => wave = Looped(pw)
  /\ (Wrapped(s, TagDotDelayed) /\ IsSome(PrefixNumber(Inside(s, TagDotDelayed))))
       => wave = Delayed(pw, Val(PrefixNumber(Inside(s, TagDotDelayed))))
  /\ (Wrapped(s, TagDotAdd) /\ IsSome(PrefixWave(Inside(s, TagDotAdd))))
       => wave = Sum(pw, Val(PrefixWave(Inside(s, TagDotAdd))))
  /\ (Wrapped(s, TagDotMul) /\ IsSome(PrefixWave(Inside(s, TagDotMul))))
       => wave = Product(pw, Val(PrefixWave(Inside(s, TagDotMul))))

C18_SuffixesFoldLeft ==
  Parsed =>
    /\ \A k \in 1..(Len(spec) - 1) :
         IsSome(PrefixWave(Take(spec, k)))
           => C18_Suffix(Val(PrefixWave(Take(spec, k))), Drop(spec, k))
    /\ spec = DefaultSpec => wave = SineWave(Const(440 * ONE))
    /\ spec = DefaultSpec \o TagDotLooped => wave = Looped(SineWave(Const(440 * ONE)))

\* Two different suffixes in a row: the second wraps the first.
C18_Witness ==
  /\ Parsed
  /\ spec = <<"2", ".", "a", "d", "d", "(", "2", ")", ".", "l", "o", "o", "p", "e", "d", "(", ")">>
  /\ wave = Looped(Sum(Const(2 * ONE), Const(2 * ONE)))

(***************************************************************************)
(* C21.  On every call of Sum.next each child's next is called exactly     *)
(* once, with the step of that call, whichever child has ended: the first  *)
(* wave and then the second, each started from the state the sum held and  *)
(* left in the state the sum holds afterwards; no child is skipped and     *)
(* none is advanced twice.                                                 *)
(***************************************************************************)
\* Path q lies strictly below path p in the graph.
Below(p, q) == Len(q) > Len(p) /\ SubSeq(q, 1, Len(p)) = p

\* Entry j was made while the call of entry i was running.
During(i, j) == \A k \in (i + 1)..j : Below(trace[i].path, trace[k].path)

\* The calls that reached the child in the given slot during the call of entry i.
ChildEntries(i, slot) ==
  {j \in (i + 1)..Len(trace) :
     trace[j].path = trace[i].path \o <<slot>> /\ During(i, j)}

C21_ChildOnce(i, k, slot) ==
  /\ trace[i].calls[k] = Call(slot, "next", trace[i].step, trace[i].calls[k].out)
  /\ Cardinality(ChildEntries(i, slot)) = 1
  /\ \A j \in ChildEntries(i, slot) :
       /\ trace[j].op = "next"
       /\ trace[j].step = trace[i].step
       /\ trace[j].pre = trace[i].pre[slot]
       /\ trace[j].post = trace[i].post[slot]
       /\ trace[j].out = trace[i].calls[k].out

C21_SumCallsEachChildOnce ==
  \A i \in Idx :
    NextOf(trace[i], "Sum") =>
      /\ Len(trace[i].calls) = 2
      /\ C21_ChildOnce(i, 1, "wave1")
      /\ C21_ChildOnce(i, 2, "wave2")

\* The first wave, an envelope, has ended and the second, a slide, is still
\* advanced by the step of the call.
C21_Witness ==
  \E i \in Idx :
    /\ NextOf(trace[i], "Sum")
    /\ trace[i].step > 0
    /\ trace[i].pre.wave1.kind = "Adshr"
    /\ trace[i].calls[1].out = None
    /\ trace[i].pre.wave2.kind = "Slide"
    /\ trace[i].post.wave2.time = trace[i].pre.wave2.time + trace[i].step
    /\ IsSome(trace[i].out)

(***************************************************************************)
(* C22.  With non-negative steps the envelope passes through attack,       *)
(* decay, hold and release in that order and never returns to an earlier   *)
(* phase before reset.  Attack yields time/attack, rising from 0; decay    *)
(* falls linearly from 1 to the sustain level; hold yields the sustain     *)
(* level; release falls linearly from the sustain level towards 0.  A      *)
(* phase of duration 0 yields no sample and no division is by zero; with   *)
(* all durations 0 the first call already ends.                            *)
(***************************************************************************)
\* The times at which the decay, the hold and the release begin.
DecayStart(w) == w.attack_time
HoldStart(w) == w.attack_time + w.decay_time
ReleaseStart(w) == w.attack_time + w.decay_time + w.hold_time

\* 1 attack, 2 decay, 3 hold, 4 release, 5 ended: by the time alone.
PhaseAt(w) ==
  IF w.time < DecayStart(w) THEN 1
  ELSE IF w.time < HoldStart(w) THEN 2
  ELSE IF w.time < ReleaseStart(w) THEN 3
  ELSE IF w.time < Total(w) THEN 4
  ELSE 5

\* The fraction of a phase of the given duration that has passed at the
\* envelope's time.
Fraction(w, start, duration) == Div(w.time - start, duration)

C22_Value(w, v) ==
  CASE PhaseAt(w) = 1 ->
         /\ w.attack_time > 0
         /\ v = Some(Fraction(w, 0, w.attack_time))
         /\ Val(v) \in 0..(ONE - 1)
         /\ w.time = 0 => v = Some(0)
    [] PhaseAt(w) = 2 ->
         /\ w.decay_time > 0
         /\ v = Some(ONE - Mul(Fraction(w, DecayStart(w), w.decay_time),
                               ONE - w.sustain_level))
         /\ Val(v) \in w.sustain_level..ONE
         /\ w.time = DecayStart(w) => v = Some(ONE)
    [] PhaseAt(w) = 3 ->
         /\ w.hold_time > 0
         /\ v = Some(w.sustain_level)
    [] PhaseAt(w) = 4 ->
         /\ w.release_time > 0
         /\ v = Some(Mul(ONE - Fraction(w, ReleaseStart(w), w.release_time),
                         w.sustain_level))
         /\ Val(v) \in 0..w.sustain_level
         /\ w.time = ReleaseStart(w) => v = Some(w.sustain_level)
    [] PhaseAt(w) = 5 -> v = None

\* Within one run the phases only go forward, the attack rises and the decay
\* and the release fall.
C22_Order(i, j) ==
  LET p == PhaseAt(trace[i].pre)
      q == PhaseAt(trace[j].pre)
  IN /\ p <= q
     /\ (p = q /\ p = 1) => Val(trace[i].out) <= Val(trace[j].out)
     /\ (p = q /\ p \in {2, 4}) => Val(trace[i].out) >= Val(trace[j].out)
     /\ (p = q /\ p \in {1, 2, 4} /\ trace[i].pre.time < trace[j].pre.time
          /\ trace[i].pre.sustain_level \in 1..(ONE - 1))
          => trace[i].out # trace[j].out

C22_AdshrPhases ==
  /\ \A i \in Idx :
       NextOf(trace[i], "Adshr") =>
         /\ trace[i].pre.time >= 0
         /\ C22_Value(trace[i].pre, trace[i].out)
         /\ Total(trace[i].pre) = 0 => trace[i].out = None
  /\ \A i, j \in Idx : SameRun(i, j, "Adshr") => C22_Order(i, j)

\* An envelope with four positive durations has been sampled inside each of
\* its phases, in order, and has then ended.
C22_Witness ==
  \E m \in Idx :
    /\ NextOf(trace[m], "Adshr")
    /\ trace[m].out = None
    /\ \E i \in 1..m :
         /\ SameRun(i, m, "Adshr")
         /\ PhaseAt(trace[i].pre) = 1
         /\ Val(trace[i].out) \in 1..(ONE - 1)
         /\ \E j \in i..m :
              /\ SameRun(j, m, "Adshr")
              /\ PhaseAt(trace[j].pre) = 2
              /\ Val(trace[j].out) \in (trace[j].pre.sustain_level + 1)..(ONE - 1)
              /\ \E k \in j..m :
                   /\ SameRun(k, m, "Adshr")
                   /\ PhaseAt(trace[k].pre) = 3
                   /\ trace[k].pre.time > HoldStart(trace[k].pre)
                   /\ \E l \in k..m :
                        /\ SameRun(l, m, "Adshr")
                        /\ PhaseAt(trace[l].pre) = 4
                        /\ Val(trace[l].out) \in 1..(trace[l].pre.sustain_level - 1)

(***************************************************************************)
(* C23.  Delayed keeps the child aligned to the moment the delay ends.     *)
(* With a constant positive step s and a delay d >= 0, Delayed(w, d) ends  *)
(* on exactly the first ceil(d/s) calls, and on call i >= ceil(d/s)        *)
(* (counted from 0) it returns the sample w has at child time i*s - d; for *)
(* w = slide(p, v, a) that is p + (v + 0.5*a*t)*t with t = i*s - d.        *)
(***************************************************************************)
Ceil(d, s) == (d + s - 1) \div s

\* The slide's position at time t.
SlideAt(w, t) == w.pos + Mul(w.vel + Mul(w.half_acc, t), t)

\* The k-th root call since construction or reset is call number k - 1.
C23_Call(k) ==
  LET i == k - 1
      t == i * period - fresh.delay
      e == RootCalls[k]
  IN /\ e.step = period
     /\ (e.out = None) <=> (i < Ceil(fresh.delay, period))
     /\ i >= Ceil(fresh.delay, period) =>
          /\ e.pre.wave.time = t
          /\ e.out = Some(SlideAt(fresh.wave, t))
          /\ e.calls = <<Call("wave", "next", period, e.out)>>

C23_DelayedAligned ==
  (fresh.kind = "Delayed" /\ fresh.wave.kind = "Slide") =>
    \A k \in 1..Len(RootCalls) : C23_Call(k)

\* A delay that is not a multiple of the step and longer than it: the slide
\* is first heard part of a step into its course, and again a step later.
C23_Witness ==
  /\ fresh.kind = "Delayed"
  /\ fresh.wave.kind = "Slide"
  /\ fresh.delay > period
  /\ fresh.delay % period # 0
  /\ Len(RootCalls) = Ceil(fresh.delay, period) + 2
  /\ out = Some(SlideAt(fresh.wave, (Len(RootCalls) - 1) * period - fresh.delay))
  /\ wave.wave.time = Len(RootCalls) * period - fresh.delay

(***************************************************************************)
(* C24.  reset() is applied recursively: it sets the time-dependent state  *)
(* of every nested generator (oscillator phases, the noise seed and phase, *)
(* the accumulated time of Slide, Delayed and Adshr) to its value at       *)
(* construction and leaves every parameter and the shape of the graph      *)
(* unchanged.  So reset is idempotent, and reset on a freshly built graph  *)
(* changes nothing.                                                        *)
(***************************************************************************)
ChildSlots == {"wave", "wave1", "wave2", "freq", "duty"}

\* The graph g with the state of every generator in it as at construction.
RECURSIVE Rewound(_)
Rewound(g) ==
  [f \in DOMAIN g |->
     CASE f \in {"time", "phase"} -> 0
       [] f = "seed" -> NOISE_INIT_SEED
       [] f \in ChildSlots -> Rewound(g[f])
       [] OTHER -> g[f]]

\* reset() of entry i reached each child once, and left it rewound.
C24_ResetEntry(i) ==
  LET e == trace[i]
      slots == DOMAIN e.pre \cap ChildSlots
  IN /\ e.post = Rewound(e.pre)
     /\ Len(e.calls) = Cardinality(slots)
     /\ {e.calls[k].slot : k \in 1..Len(e.calls)} = slots
     /\ \A k \in 1..Len(e.calls) : e.calls[k].op = "reset"
     /\ \A slot \in slots :
          /\ Cardinality(ChildEntries(i, slot)) = 1
          /\ \A j \in ChildEntries(i, slot) :
               /\ trace[j].op = "reset"
               /\ trace[j].pre = e.pre[slot]
               /\ trace[j].post = Rewound(e.pre[slot])

C24_ResetRecursive ==
  /\ \A i \in Idx : trace[i].op = "reset" => C24_ResetEntry(i)
  /\ \E r \in {WaveReset(wave, <<>>)} :
       /\ r.wave = Rewound(wave)
       /\ r.wave = fresh
       /\ WaveReset(r.wave, <<>>).wave = r.wave
  /\ WaveReset(fresh, <<>>).wave = fresh

\* reset() on a delayed loop of an envelope times a slide, after it has
\* run: the delay's own time and the slide three levels down are back at 0.
C24_Witness ==
  /\ n = 0
  /\ trace # <<>>
  /\ trace[1].op = "reset"
  /\ trace[1].path = <<>>
  /\ trace[1].kind = "Delayed"
  /\ trace[1].pre.time > 0
  /\ wave = fresh
  /\ \E i \in Idx :
       /\ trace[i].path = <<"wave", "wave", "wave2">>
       /\ trace[i].kind = "Slide"
       /\ trace[i].pre.time > 0
       /\ trace[i].post.time = 0

=========================================================================
